---- MODULE Spec2Model ----
(***************************************************************************)
(* DirectionMeasurements (src/src/lib.rs): an accumulator of angular       *)
(* measurements with a u64 count and two binary64 running sums, and the    *)
(* two queries average_direction and standard_deviation.                   *)
(*                                                                         *)
(* The f64 fields are modelled bit for bit.  TLC's integers are 32 bits    *)
(* wide, so a 64-bit quantity is held as a natural number in limbs         *)
(* (section 1), and IEEE-754 binary64 arithmetic is computed on those      *)
(* limbs with round-to-nearest-even (section 2).                           *)
(***************************************************************************)
EXTENDS Integers, Sequences, FiniteSets, TLC

----------------------------------------------------------------------------
(* 1. Natural numbers of arbitrary size: little-endian sequences of limbs  *)
(*    in base R, without high zero limbs (so equal numbers are equal       *)
(*    sequences; zero is << >>).                                           *)

Max(a, b) == IF a >= b THEN a ELSE b
Min(a, b) == IF a <= b THEN a ELSE b

Pow2(n) == 2 ^ n

\* limbs of 14 bits, so that a product of two limbs fits TLC's integers
LimbBits == 2 * 7
R == Pow2(LimbBits)

\* the function f on 1..n as a sequence of limbs
Limbs(f, n) == SubSeq(f, 1, n)

\* the index of the high nonzero limb, 0 when there is none
BTop(a) ==
    IF \A i \in 1..Len(a) : a[i] = 0 THEN 0
    ELSE CHOOSE i \in 1..Len(a) : a[i] # 0 /\ \A j \in (i + 1)..Len(a) : a[j] = 0

BNorm(a) == SubSeq(a, 1, BTop(a))

BNat(n) == IF n = 0 THEN << >> ELSE IF n < R THEN << n >> ELSE << n % R, n \div R >>

Limb(a, i) == IF 1 <= i /\ i <= Len(a) THEN a[i] ELSE 0

BMaxLen(a, b) == IF Len(a) >= Len(b) THEN Len(a) ELSE Len(b)

\* the carry into limb i of the limb sums t: a lower limb overflows and every
\* limb between is full
Carry(t, i) ==
    IF \E j \in 1..(i - 1) : t[j] >= R /\ \A k \in (j + 1)..(i - 1) : t[k] = R - 1
    THEN 1 ELSE 0

\* the number whose limb sums (each below 2 * R - 1) are t
BCarry(t) ==
    BNorm(Limbs([i \in 1..(Len(t) + 1) |-> (Limb(t, i) + Carry(t, i)) % R], Len(t) + 1))

\* a + b
BAdd(a, b) ==
    IF a = << >> THEN b
    ELSE IF b = << >> THEN a
    ELSE BCarry(Limbs([i \in 1..BMaxLen(a, b) |-> Limb(a, i) + Limb(b, i)], BMaxLen(a, b)))

\* the borrow from limb i in a - b: a lower limb of a is the smaller and the
\* limbs between are equal
Borrow(a, b, i) ==
    IF \E j \in 1..(i - 1) :
         Limb(a, j) < Limb(b, j) /\ \A k \in (j + 1)..(i - 1) : Limb(a, k) = Limb(b, k)
    THEN 1 ELSE 0

\* a - b for a >= b
BSub(a, b) ==
    IF b = << >> THEN a
    ELSE BNorm(Limbs([i \in 1..Len(a) |-> (a[i] - Limb(b, i) - Borrow(a, b, i) + R) % R], Len(a)))

\* the high limb in which a and b, of one length and different, differ
BTopDiff(a, b) ==
    CHOOSE i \in 1..Len(a) : a[i] # b[i] /\ \A j \in (i + 1)..Len(a) : a[j] = b[j]

\* -1, 0, 1 as a < b, a = b, a > b
BCmp(a, b) ==
    IF Len(a) < Len(b) THEN -1
    ELSE IF Len(a) > Len(b) THEN 1
    ELSE IF a = b THEN 0
    ELSE IF a[BTopDiff(a, b)] < b[BTopDiff(a, b)] THEN -1
    ELSE 1

\* a * k for 0 <= k < R: the low halves of the limb products plus the high
\* halves one limb up
BMulSmall(a, k) ==
    IF k = 0 \/ a = << >> THEN << >>
    ELSE BAdd(Limbs([i \in 1..Len(a) |-> (a[i] * k) % R], Len(a)),
              Limbs([i \in 1..(Len(a) + 1) |-> (Limb(a, i - 1) * k) \div R], Len(a) + 1))

BShlLimbs(a, n) == IF a = << >> THEN << >> ELSE [i \in 1..n |-> 0] \o a

RECURSIVE BMulFrom(_, _, _)
BMulFrom(a, b, i) ==
    IF i > Len(b) THEN << >>
    ELSE BAdd(BMulFrom(a, b, i + 1), BShlLimbs(BMulSmall(a, b[i]), i - 1))

BMul(a, b) == BMulFrom(a, b, 1)

\* a * 2^s for s < LimbBits: each limb keeps its low bits, moved up, and
\* takes the high bits of the limb below
BShlBits(a, s) ==
    BNorm(Limbs([i \in 1..(Len(a) + 1) |->
                   (Limb(a, i) % Pow2(LimbBits - s)) * Pow2(s)
                   + Limb(a, i - 1) \div Pow2(LimbBits - s)],
                Len(a) + 1))

\* a * 2^n
BShl(a, n) == BShlLimbs(BShlBits(a, n % LimbBits), n \div LimbBits)

BDropLimbs(a, n) == IF n >= Len(a) THEN << >> ELSE SubSeq(a, n + 1, Len(a))

\* floor(a / 2^s) for s < LimbBits: each limb keeps its high bits and takes
\* the low bits of the limb above
BShrBits(a, s) ==
    BNorm(Limbs([i \in 1..Len(a) |->
                   a[i] \div Pow2(s) + (Limb(a, i + 1) % Pow2(s)) * Pow2(LimbBits - s)],
                Len(a)))

\* floor(a / 2^n)
BShr(a, n) == BShrBits(BDropLimbs(a, n \div LimbBits), n % LimbBits)

\* number of bits of a (0 for zero)
SmallBits(n) ==
    IF n = 0 THEN 0
    ELSE CHOOSE k \in 1..LimbBits : Pow2(k - 1) <= n /\ n < Pow2(k)

BBits(a) == IF a = << >> THEN 0 ELSE (Len(a) - 1) * LimbBits + SmallBits(a[Len(a)])

BIsOdd(a) == a # << >> /\ a[1] % 2 = 1

\* the digit floor(r / b), which is est or less than est by at most 2
QFix(r, b, est) ==
    IF BCmp(BMulSmall(b, est), r) <= 0 THEN est
    ELSE IF BCmp(BMulSmall(b, est - 1), r) <= 0 THEN est - 1
    ELSE est - 2

\* floor(r / b) for r < b * R, where the high limb of b is at least R / 2:
\* the quotient of the two high limbs of r by the high limb of b is the
\* digit or exceeds it by at most 2
QDigit(r, b) ==
    IF BCmp(r, b) < 0 THEN 0
    ELSE QFix(r, b, Min((Limb(r, Len(b) + 1) * R + Limb(r, Len(b))) \div b[Len(b)], R - 1))

\* the quotient h[1] with the digit q below it, and the remainder of r2 by b
BDivDigit(h, r2, q, b) == << BNorm(<< q >> \o h[1]), BSub(r2, BMulSmall(b, q)) >>

\* one step of long division: h is << quotient, remainder >> for the limbs
\* above d, the result is the same for those limbs and d
BDivStep(h, d, b) ==
    IF h[2] = << >> /\ d = 0 THEN << BShlLimbs(h[1], 1), << >> >>
    ELSE BDivDigit(h, << d >> \o h[2], QDigit(<< d >> \o h[2], b), b)

\* << floor(a / b), a mod b >> by long division from the high limb down,
\* for b as in QDigit
RECURSIVE BDivNorm(_, _)
BDivNorm(a, b) ==
    IF Len(a) < Len(b) THEN << << >>, a >>
    ELSE BDivStep(BDivNorm(BDropLimbs(a, 1), b), a[1], b)

\* the shift that fills the high limb of b
BFill(b) == (LimbBits - (BBits(b) % LimbBits)) % LimbBits

BUnfill(qr, s) == << qr[1], BShr(qr[2], s) >>

\* << floor(a / b), a mod b >> for b # 0: both are shifted to fill the high
\* limb of b
BDivMod(a, b) == BUnfill(BDivNorm(BShl(a, BFill(b)), BShl(b, BFill(b))), BFill(b))

\* floor(sqrt(a)) by Newton's iteration from x >= sqrt(a): the iterates
\* decrease until the root is reached; y is the iterate after x
RECURSIVE BSqrtFrom(_, _)
BSqrtNext(a, x, y) == IF BCmp(y, x) >= 0 THEN x ELSE BSqrtFrom(a, y)

BSqrtFrom(a, x) == BSqrtNext(a, x, BShr(BAdd(x, BDivMod(a, x)[1]), 1))

BSqrtPair(a, r) == << r, BSub(a, BMul(r, r)) >>

\* << floor(sqrt(a)), a - floor(sqrt(a))^2 >>
BSqrtRem(a) ==
    IF a = << >> THEN << << >>, << >> >>
    ELSE BSqrtPair(a, BSqrtFrom(a, BShl(BNat(1), (BBits(a) + 1) \div 2)))

----------------------------------------------------------------------------
(* 2. IEEE-754 binary64.  A value is << s, e, f >>: sign bit s, biased      *)
(*    exponent e in 0..2047 and the 52-bit fraction f as a limb number.     *)
(*    Arithmetic is exact on the limbs and then rounded once, to nearest    *)
(*    with ties to even, which is what the hardware does for + - * / sqrt   *)
(*    and for the u64 -> f64 conversion.                                    *)

\* 2^51, 2^52 and 2^53 in limbs: 51 = 3 * 14 + 9
Two51 == << 0, 0, 0, 512 >>
Two52 == << 0, 0, 0, 1024 >>
Two53 == << 0, 0, 0, 2048 >>

FSign(x) == x[1]
FExp(x)  == x[2]
FFrac(x) == x[3]

FIsNaN(x)  == FExp(x) = 2047 /\ FFrac(x) # << >>
FIsInf(x)  == FExp(x) = 2047 /\ FFrac(x) = << >>
FIsZero(x) == FExp(x) = 0 /\ FFrac(x) = << >>
FIsFinite(x) == FExp(x) # 2047

NaN       == << 0, 2047, Two51 >>
FInf(s)   == << s, 2047, << >> >>
FZero(s)  == << s, 0, << >> >>

\* a finite value is Sig * 2^Exp2
Sig(x)  == IF FExp(x) = 0 THEN FFrac(x) ELSE BAdd(Two52, FFrac(x))
Exp2(x) == IF FExp(x) = 0 THEN -1074 ELSE FExp(x) - 1075

\* the f64 with sign s and magnitude q * 2^e, for q < 2^53 and e >= -1074
\* (q < 2^52 only when e = -1074)
Encode(s, q, e) ==
    IF q = << >> THEN FZero(s)
    ELSE IF BCmp(q, Two52) < 0 THEN << s, 0, q >>
    ELSE IF e + 1075 >= 2047 THEN FInf(s)
    ELSE << s, e + 1075, BSub(q, Two52) >>

\* whether q, cut off below a remainder that compares as c with one half,
\* rounds up: above the half, or at it when more was cut off before or q is odd
RoundsUp(q, c, sticky) == c > 0 \/ (c = 0 /\ (sticky \/ BIsOdd(q)))

\* the f64 of q2 * 2^e, where q2 <= 2^53
EncodeRounded(s, q2, e) ==
    Encode(s, IF q2 = Two53 THEN Two52 ELSE q2, IF q2 = Two53 THEN e + 1 ELSE e)

\* sig * 2^(e - d) rounded to the multiple q or q + 1 of 2^e, where
\* q = floor(sig / 2^d)
RoundOff(s, sig, q, d, e, sticky) ==
    EncodeRounded(s,
                  IF RoundsUp(q, BCmp(BSub(sig, BShl(q, d)), BShl(BNat(1), d - 1)), sticky)
                  THEN BAdd(q, BNat(1)) ELSE q,
                  e)

\* sig * 2^exp rounded to a multiple of 2^e, e being the exponent of the
\* result
RoundAt(s, sig, exp, sticky, e) ==
    IF e <= exp THEN Encode(s, BShl(sig, exp - e), e)
    ELSE RoundOff(s, sig, BShr(sig, e - exp), e - exp, e, sticky)

\* the f64 nearest to (-1)^s * (sig + d) * 2^exp, where 0 <= d < 1 and
\* d > 0 exactly when sticky; callers pass at least 55 bits when sticky
RoundPack(s, sig, exp, sticky) ==
    IF sig = << >> THEN FZero(s)
    ELSE RoundAt(s, sig, exp, sticky, Max(exp + BBits(sig) - 53, -1074))

\* `n as f64` for a limb number n
NatToF64(n) == RoundPack(0, n, 0, FALSE)

\* the f64 literal with the integer value n, 0 <= n < R, such as 360.0
Lit(n) ==
    IF n = 0 THEN FZero(0)
    ELSE << 0, 1022 + SmallBits(n), BShl(BNat(n - Pow2(SmallBits(n) - 1)), 53 - SmallBits(n)) >>

FNeg(x) == << 1 - FSign(x), FExp(x), FFrac(x) >>

\* |x| + |y| or |x| - |y| where |y| is below the last of the 3 bits added
\* to mx, so that it moves the sum by less than one unit of them
AddFar(s, mx, ex, my, same) ==
    RoundPack(s,
              IF my = << >> \/ same THEN BShl(mx, 3) ELSE BSub(BShl(mx, 3), BNat(1)),
              ex - 3,
              my # << >>)

\* |x| + |y| or |x| - |y| for the magnitudes a and my on one exponent ey
AddNear(s, a, my, ey, same) ==
    IF ~same /\ a = my THEN FZero(0)
    ELSE RoundPack(IF same \/ BCmp(a, my) > 0 THEN s ELSE 1 - s,
                   IF same THEN BAdd(a, my)
                   ELSE IF BCmp(a, my) > 0 THEN BSub(a, my) ELSE BSub(my, a),
                   ey,
                   FALSE)

\* |x| + |y| or |x| - |y| for finite x, y of which x has the larger
\* exponent; the result carries the sign s when it is not negative
AddAligned(s, mx, ex, my, ey, same) ==
    IF ex - ey > 60 /\ mx # << >> THEN AddFar(s, mx, ex, my, same)
    ELSE AddNear(s, BShl(mx, ex - ey), my, ey, same)

\* x + y for finite x, y of which x has the larger exponent
AddOrdered(x, y) ==
    AddAligned(FSign(x), Sig(x), Exp2(x), Sig(y), Exp2(y), FSign(x) = FSign(y))

\* x + y
FAdd(x, y) ==
    IF FIsNaN(x) \/ FIsNaN(y) THEN NaN
    ELSE IF FIsInf(x) THEN (IF FIsInf(y) /\ FSign(x) # FSign(y) THEN NaN ELSE x)
    ELSE IF FIsInf(y) THEN y
    ELSE IF FIsZero(x) /\ FIsZero(y)
         THEN (IF FSign(x) = 1 /\ FSign(y) = 1 THEN FZero(1) ELSE FZero(0))
    ELSE AddOrdered(IF Exp2(x) >= Exp2(y) THEN x ELSE y,
                    IF Exp2(x) >= Exp2(y) THEN y ELSE x)

\* x - y
FSub(x, y) == FAdd(x, FNeg(y))

SignXor(x, y) == IF FSign(x) = FSign(y) THEN 0 ELSE 1

\* x * y
FMul(x, y) ==
    IF FIsNaN(x) \/ FIsNaN(y) THEN NaN
    ELSE IF FIsInf(x) \/ FIsInf(y)
         THEN (IF FIsZero(x) \/ FIsZero(y) THEN NaN ELSE FInf(SignXor(x, y)))
    ELSE RoundPack(SignXor(x, y), BMul(Sig(x), Sig(y)), Exp2(x) + Exp2(y), FALSE)

\* the f64 of the quotient qr[1] * 2^exp, inexact when the remainder qr[2]
\* is not 0
PackQuotient(s, qr, exp) == RoundPack(s, qr[1], exp, qr[2] # << >>)

\* x / y for finite nonzero x, y, the dividend shifted by k bits so that the
\* quotient has at least 55 bits
DivShifted(x, y, k) ==
    PackQuotient(SignXor(x, y), BDivMod(BShl(Sig(x), k), Sig(y)), Exp2(x) - Exp2(y) - k)

\* x / y
FDiv(x, y) ==
    IF FIsNaN(x) \/ FIsNaN(y) THEN NaN
    ELSE IF FIsInf(x) THEN (IF FIsInf(y) THEN NaN ELSE FInf(SignXor(x, y)))
    ELSE IF FIsInf(y) THEN FZero(SignXor(x, y))
    ELSE IF FIsZero(y) THEN (IF FIsZero(x) THEN NaN ELSE FInf(SignXor(x, y)))
    ELSE IF FIsZero(x) THEN FZero(SignXor(x, y))
    ELSE DivShifted(x, y, Max(0, 56 + BBits(Sig(y)) - BBits(Sig(x))))

\* sqrt(x) for finite x > 0, the significand shifted by k or k + 1 bits so
\* that the exponent left is even
SqrtShifted(x, k) ==
    IF (Exp2(x) - k) % 2 = 0
    THEN PackQuotient(0, BSqrtRem(BShl(Sig(x), k)), (Exp2(x) - k) \div 2)
    ELSE PackQuotient(0, BSqrtRem(BShl(Sig(x), k + 1)), (Exp2(x) - k - 1) \div 2)

\* sqrt(x)
FSqrt(x) ==
    IF FIsNaN(x) THEN NaN
    ELSE IF FIsZero(x) THEN x
    ELSE IF FSign(x) = 1 THEN NaN
    ELSE IF FIsInf(x) THEN x
    ELSE SqrtShifted(x, Max(0, 110 - BBits(Sig(x))))

\* x < y
FLt(x, y) ==
    IF FIsNaN(x) \/ FIsNaN(y) THEN FALSE
    ELSE IF FIsZero(x) /\ FIsZero(y) THEN FALSE
    ELSE IF FSign(x) # FSign(y) THEN FSign(x) = 1
    ELSE IF FExp(x) # FExp(y) THEN (FExp(x) < FExp(y)) = (FSign(x) = 0)
    ELSE IF FSign(x) = 0 THEN BCmp(FFrac(x), FFrac(y)) < 0
    ELSE BCmp(FFrac(x), FFrac(y)) > 0

\* x == y
FEq(x, y) ==
    /\ ~FIsNaN(x)
    /\ ~FIsNaN(y)
    /\ (x = y \/ (FIsZero(x) /\ FIsZero(y)))

FLe(x, y) == FLt(x, y) \/ FEq(x, y)

----------------------------------------------------------------------------
(* 3. The transcendental functions.  sin, cos, atan2 and asin go to the     *)
(*    platform's libm; they are tabulated, bit for bit, on the arguments   *)
(*    at which the accumulator takes them within the bounds of section 4.   *)

\* sin(x) of the platform's libm, for the arguments x the model takes it at
Sin(x) ==
    IF FIsNaN(x) \/ FIsInf(x) THEN NaN
    ELSE CASE x = <<0,0,<<>>>> -> <<0,0,<<>>>>
           [] x = <<0,1020,<<7481,2378,13418,119>>>> -> <<0,1020,<<7705,6710,1737,116>>>>
           [] x = <<0,1023,<<11544,4368,8117,584>>>> -> <<0,1023,<<>>>>
           [] x = <<0,1024,<<13157,8373,5411,48>>>> -> <<0,1022,<<3243,8545,10158,749>>>>
           [] x = <<0,1024,<<11544,4368,8117,584>>>> -> <<0,970,<<7175,3153,8803,105>>>>
           [] x = <<0,1025,<<13157,8373,5411,48>>>> -> <<1,1022,<<3240,8545,10158,749>>>>
           [] x = <<0,1025,<<8658,15564,6087,182>>>> -> <<1,1023,<<>>>>
           [] x = <<0,1025,<<11544,4368,8117,584>>>> -> <<1,971,<<7175,3153,8803,105>>>>

\* cos(x) of the platform's libm
Cos(x) ==
    IF FIsNaN(x) \/ FIsInf(x) THEN NaN
    ELSE CASE x = <<0,0,<<>>>> -> <<0,1023,<<>>>>
           [] x = <<0,1020,<<7481,2378,13418,119>>>> -> <<0,1022,<<5242,9410,1130,1004>>>>
           [] x = <<0,1023,<<11544,4368,8117,584>>>> -> <<0,969,<<7175,3153,8803,105>>>>
           [] x = <<0,1024,<<13157,8373,5411,48>>>> -> <<1,1021,<<16380,16383,16383,1023>>>>
           [] x = <<0,1024,<<11544,4368,8117,584>>>> -> <<1,1023,<<>>>>
           [] x = <<0,1025,<<13157,8373,5411,48>>>> -> <<1,1022,<<4>>>>
           [] x = <<0,1025,<<8658,15564,6087,182>>>> -> <<1,970,<<2570,12922,5012,670>>>>
           [] x = <<0,1025,<<11544,4368,8117,584>>>> -> <<0,1023,<<>>>>

\* atan2(y, x) of the platform's libm
Atan2(y, x) ==
    IF FIsNaN(y) \/ FIsNaN(x) THEN NaN
    ELSE CASE << y, x >> = << <<0,0,<<>>>>, <<0,1012,<<>>>> >> -> <<0,0,<<>>>>
           [] << y, x >> = << <<0,0,<<>>>>, <<0,1023,<<>>>> >> -> <<0,0,<<>>>>
           [] << y, x >> = << <<0,0,<<>>>>, <<0,1076,<<>>>> >> -> <<0,0,<<>>>>
           [] << y, x >> = << <<0,0,<<>>>>, <<1,969,<<7174,3153,8803,105>>>> >> -> <<0,1024,<<11544,4368,8117,584>>>>
           [] << y, x >> = << <<0,968,<<8173,2513,14754,59>>>>, <<1,969,<<5461,5461,5461,341>>>> >> -> <<0,1024,<<6181,10920,489,391>>>>
           [] << y, x >> = << <<0,968,<<5461,5461,5461,341>>>>, <<1,969,<<5461,5461,5461,341>>>> >> -> <<0,1024,<<13742,3679,1767,347>>>>
           [] << y, x >> = << <<0,969,<<>>>>, <<0,1074,<<16383,16383,16383,1023>>>> >> -> <<0,917,<<1>>>>
           [] << y, x >> = << <<0,969,<<0,0,0,512>>>>, <<1,1021,<<2>>>> >> -> <<0,1024,<<11544,4368,8117,584>>>>
           [] << y, x >> = << <<0,970,<<>>>>, <<0,1074,<<5461,5461,5461,341>>>> >> -> <<0,918,<<0,0,0,512>>>>
           [] << y, x >> = << <<0,970,<<>>>>, <<1,969,<<5461,5461,5461,341>>>> >> -> <<0,1024,<<12145,16014,4997,81>>>>
           [] << y, x >> = << <<0,970,<<>>>>, <<1,1021,<<2>>>> >> -> <<0,1024,<<11543,4368,8117,584>>>>
           [] << y, x >> = << <<0,970,<<7175,3153,8803,105>>>>, <<1,1023,<<>>>> >> -> <<0,1024,<<11544,4368,8117,584>>>>
           [] << y, x >> = << <<0,970,<<5461,5461,5461,341>>>>, <<1,1022,<<5461,5461,5461,341>>>> >> -> <<0,1024,<<11544,4368,8117,584>>>>
           [] << y, x >> = << <<0,970,<<0,0,0,512>>>>, <<0,1074,<<16383,16383,16383,1023>>>> >> -> <<0,918,<<1,0,0,512>>>>
           [] << y, x >> = << <<0,970,<<0,0,0,512>>>>, <<1,1022,<<1>>>> >> -> <<0,1024,<<11544,4368,8117,584>>>>
           [] << y, x >> = << <<0,971,<<>>>>, <<0,1074,<<16382,16383,16383,1023>>>> >> -> <<0,919,<<1>>>>
           [] << y, x >> = << <<0,1018,<<3424,14971,8517,73>>>>, <<1,1020,<<4>>>> >> -> <<0,1024,<<16043,13561,7440,450>>>>
           [] << y, x >> = << <<0,1018,<<3424,14971,8517,73>>>>, <<1,1020,<<5>>>> >> -> <<0,1024,<<16043,13561,7440,450>>>>
           [] << y, x >> = << <<0,1018,<<3436,14971,8517,73>>>>, <<1,1021,<<3,0,0,512>>>> >> -> <<0,1024,<<4505,14294,14523,538>>>>
           [] << y, x >> = << <<0,1018,<<3440,14971,8517,73>>>>, <<1,1021,<<2,0,0,512>>>> >> -> <<0,1024,<<4504,14294,14523,538>>>>
           [] << y, x >> = << <<0,1018,<<3440,14971,8517,73>>>>, <<1,1021,<<3,0,0,512>>>> >> -> <<0,1024,<<4504,14294,14523,538>>>>
           [] << y, x >> = << <<0,1018,<<4553,14500,5895,439>>>>, <<0,1020,<<5457,5461,5461,341>>>> >> -> <<0,1021,<<13161,8373,5411,48>>>>
           [] << y, x >> = << <<0,1018,<<4555,14500,5895,439>>>>, <<0,1020,<<5456,5461,5461,341>>>> >> -> <<0,1021,<<13163,8373,5411,48>>>>
           [] << y, x >> = << <<0,1018,<<4555,14500,5895,439>>>>, <<0,1020,<<5457,5461,5461,341>>>> >> -> <<0,1021,<<13163,8373,5411,48>>>>
           [] << y, x >> = << <<0,1018,<<4565,14500,5895,439>>>>, <<0,1020,<<5456,5461,5461,341>>>> >> -> <<0,1021,<<13170,8373,5411,48>>>>
           [] << y, x >> = << <<0,1018,<<4565,14500,5895,439>>>>, <<0,1020,<<5457,5461,5461,341>>>> >> -> <<0,1021,<<13170,8373,5411,48>>>>
           [] << y, x >> = << <<0,1018,<<4565,14500,5895,439>>>>, <<0,1074,<<5461,5461,5461,341>>>> >> -> <<0,967,<<3424,14971,8517,73>>>>
           [] << y, x >> = << <<0,1018,<<4571,14500,5895,439>>>>, <<1,1022,<<1>>>> >> -> <<0,1024,<<4505,14294,14523,538>>>>
           [] << y, x >> = << <<0,1018,<<4576,14500,5895,439>>>>, <<1,1022,<<1>>>> >> -> <<0,1024,<<4505,14294,14523,538>>>>
           [] << y, x >> = << <<0,1018,<<4581,14500,5895,439>>>>, <<0,1074,<<5460,5461,5461,341>>>> >> -> <<0,967,<<3437,14971,8517,73>>>>
           [] << y, x >> = << <<0,1018,<<4587,14500,5895,439>>>>, <<0,1074,<<5460,5461,5461,341>>>> >> -> <<0,967,<<3441,14971,8517,73>>>>
           [] << y, x >> = << <<0,1018,<<4827,8947,2316,496>>>>, <<1,1014,<<683,16186,12750,676>>>> >> -> <<0,1023,<<5873,14757,16123,655>>>>
           [] << y, x >> = << <<0,1018,<<4832,8947,2316,496>>>>, <<1,1014,<<683,16186,12750,676>>>> >> -> <<0,1023,<<5873,14757,16123,655>>>>
           [] << y, x >> = << <<0,1019,<<3416,14971,8517,73>>>>, <<0,1074,<<16383,16383,16383,1023>>>> >> -> <<0,967,<<3417,14971,8517,73>>>>
           [] << y, x >> = << <<0,1019,<<3424,14971,8517,73>>>>, <<0,1074,<<16383,16383,16383,1023>>>> >> -> <<0,967,<<3425,14971,8517,73>>>>
           [] << y, x >> = << <<0,1019,<<3424,14971,8517,73>>>>, <<1,1021,<<3>>>> >> -> <<0,1024,<<16043,13561,7440,450>>>>
           [] << y, x >> = << <<0,1019,<<3424,14971,8517,73>>>>, <<1,1021,<<4>>>> >> -> <<0,1024,<<16043,13561,7440,450>>>>
           [] << y, x >> = << <<0,1019,<<3428,14971,8517,73>>>>, <<0,1074,<<16382,16383,16383,1023>>>> >> -> <<0,967,<<3429,14971,8517,73>>>>
           [] << y, x >> = << <<0,1019,<<3432,14971,8517,73>>>>, <<0,1074,<<16382,16383,16383,1023>>>> >> -> <<0,967,<<3433,14971,8517,73>>>>
           [] << y, x >> = << <<0,1019,<<7716,6710,1737,116>>>>, <<0,1074,<<16383,16383,16383,1023>>>> >> -> <<0,967,<<7717,6710,1737,116>>>>
           [] << y, x >> = << <<0,1019,<<7720,6710,1737,116>>>>, <<0,1074,<<16383,16383,16383,1023>>>> >> -> <<0,967,<<7721,6710,1737,116>>>>
           [] << y, x >> = << <<0,1019,<<4565,14500,5895,439>>>>, <<0,1074,<<5460,5461,5461,341>>>> >> -> <<0,968,<<3425,14971,8517,73>>>>
           [] << y, x >> = << <<0,1019,<<12880,3531,12298,467>>>>, <<0,1020,<<6985,1624,12430,314>>>> >> -> <<0,1022,<<13783,13790,243,17>>>>
           [] << y, x >> = << <<0,1020,<<3424,14971,8517,73>>>>, <<0,1075,<<16383,16383,16383,1023>>>> >> -> <<0,967,<<3425,14971,8517,73>>>>
           [] << y, x >> = << <<0,1020,<<13756,10840,13319,94>>>>, <<0,1074,<<16383,16383,16383,1023>>>> >> -> <<0,968,<<13757,10840,13319,94>>>>
           [] << y, x >> = << <<0,1020,<<7705,6710,1737,116>>>>, <<0,1022,<<5242,9410,1130,1004>>>> >> -> <<0,1020,<<7481,2378,13418,119>>>>
           [] << y, x >> = << <<0,1020,<<3244,8545,10158,749>>>>, <<1,1020,<<>>>> >> -> <<0,1024,<<13157,8373,5411,48>>>>
           [] << y, x >> = << <<0,1020,<<3246,8545,10158,749>>>>, <<1,1020,<<>>>> >> -> <<0,1024,<<13157,8373,5411,48>>>>
           [] << y, x >> = << <<0,1020,<<3247,8545,10158,749>>>>, <<1,1022,<<0,0,0,256>>>> >> -> <<0,1024,<<6960,8947,12405,413>>>>
           [] << y, x >> = << <<0,1020,<<3248,8545,10158,749>>>>, <<1,1022,<<0,0,0,256>>>> >> -> <<0,1024,<<6960,8947,12405,413>>>>
           [] << y, x >> = << <<0,1020,<<8648,11864,16166,974>>>>, <<1,1021,<<5460,5461,5461,341>>>> >> -> <<0,1024,<<14685,13279,15651,260>>>>
           [] << y, x >> = << <<0,1021,<<>>>>, <<1,968,<<>>>> >> -> <<0,1023,<<11545,4368,8117,584>>>>
           [] << y, x >> = << <<0,1021,<<>>>>, <<1,968,<<4604,6615,3790,459>>>> >> -> <<0,1023,<<11545,4368,8117,584>>>>
           [] << y, x >> = << <<0,1021,<<>>>>, <<1,968,<<0,0,0,512>>>> >> -> <<0,1023,<<11545,4368,8117,584>>>>
           [] << y, x >> = << <<0,1021,<<>>>>, <<1,969,<<>>>> >> -> <<0,1023,<<11545,4368,8117,584>>>>
           [] << y, x >> = << <<0,1021,<<1>>>>, <<1,969,<<>>>> >> -> <<0,1023,<<11545,4368,8117,584>>>>
           [] << y, x >> = << <<0,1021,<<2>>>>, <<1,968,<<>>>> >> -> <<0,1023,<<11545,4368,8117,584>>>>
           [] << y, x >> = << <<0,1021,<<2>>>>, <<1,968,<<4604,6615,3790,459>>>> >> -> <<0,1023,<<11545,4368,8117,584>>>>
           [] << y, x >> = << <<0,1021,<<2>>>>, <<1,968,<<0,0,0,512>>>> >> -> <<0,1023,<<11545,4368,8117,584>>>>
           [] << y, x >> = << <<0,1021,<<2>>>>, <<1,969,<<>>>> >> -> <<0,1023,<<11545,4368,8117,584>>>>
           [] << y, x >> = << <<0,1021,<<2>>>>, <<1,1022,<<>>>> >> -> <<0,1024,<<13742,3679,1767,347>>>>
           [] << y, x >> = << <<0,1021,<<3>>>>, <<1,1022,<<>>>> >> -> <<0,1024,<<13742,3679,1767,347>>>>
           [] << y, x >> = << <<0,1021,<<6682,7159,5296,5>>>>, <<1,1020,<<11142,6973,15253,19>>>> >> -> <<0,1024,<<16124,7252,8740,20>>>>
           [] << y, x >> = << <<0,1021,<<6571,12111,3112,137>>>>, <<0,1019,<<16376,16383,16383,1023>>>> >> -> <<0,1023,<<8491,10940,4020,159>>>>
           [] << y, x >> = << <<0,1021,<<6571,12111,3112,137>>>>, <<0,1019,<<16377,16383,16383,1023>>>> >> -> <<0,1023,<<8491,10940,4020,159>>>>
           [] << y, x >> = << <<0,1021,<<6571,12111,3112,137>>>>, <<0,1019,<<16378,16383,16383,1023>>>> >> -> <<0,1023,<<8490,10940,4020,159>>>>
           [] << y, x >> = << <<0,1021,<<6572,12111,3112,137>>>>, <<0,1019,<<16376,16383,16383,1023>>>> >> -> <<0,1023,<<8491,10940,4020,159>>>>
           [] << y, x >> = << <<0,1021,<<6572,12111,3112,137>>>>, <<0,1019,<<16377,16383,16383,1023>>>> >> -> <<0,1023,<<8491,10940,4020,159>>>>
           [] << y, x >> = << <<0,1021,<<6572,12111,3112,137>>>>, <<0,1019,<<16378,16383,16383,1023>>>> >> -> <<0,1023,<<8491,10940,4020,159>>>>
           [] << y, x >> = << <<0,1021,<<6572,12111,3112,137>>>>, <<1,1021,<<1,0,0,512>>>> >> -> <<0,1024,<<12796,8620,1113,253>>>>
           [] << y, x >> = << <<0,1021,<<6572,12111,3112,137>>>>, <<1,1021,<<2,0,0,512>>>> >> -> <<0,1024,<<12796,8620,1113,253>>>>
           [] << y, x >> = << <<0,1021,<<6573,12111,3112,137>>>>, <<1,1021,<<2,0,0,512>>>> >> -> <<0,1024,<<12796,8620,1113,253>>>>
           [] << y, x >> = << <<0,1021,<<13252,2886,8409,142>>>>, <<1,1014,<<8640,3947,9563,251>>>> >> -> <<0,1023,<<6772,2864,3985,593>>>>
           [] << y, x >> = << <<0,1021,<<13252,2886,8409,142>>>>, <<1,1014,<<8669,3947,9563,251>>>> >> -> <<0,1023,<<6772,2864,3985,593>>>>
           [] << y, x >> = << <<0,1021,<<13252,2886,8409,142>>>>, <<1,1014,<<8672,3947,9563,251>>>> >> -> <<0,1023,<<6772,2864,3985,593>>>>
           [] << y, x >> = << <<0,1021,<<13253,2886,8409,142>>>>, <<1,1014,<<8669,3947,9563,251>>>> >> -> <<0,1023,<<6772,2864,3985,593>>>>
           [] << y, x >> = << <<0,1021,<<13085,5696,6772,158>>>>, <<0,1074,<<5461,5461,5461,341>>>> >> -> <<0,969,<<3244,8545,10158,749>>>>
           [] << y, x >> = << <<0,1021,<<13085,5696,6772,158>>>>, <<1,1020,<<5460,5461,5461,341>>>> >> -> <<0,1024,<<13157,8373,5411,48>>>>
           [] << y, x >> = << <<0,1021,<<13087,5696,6772,158>>>>, <<0,1074,<<5460,5461,5461,341>>>> >> -> <<0,969,<<3248,8545,10158,749>>>>
           [] << y, x >> = << <<0,1021,<<13087,5696,6772,158>>>>, <<0,1074,<<5461,5461,5461,341>>>> >> -> <<0,969,<<3247,8545,10158,749>>>>
           [] << y, x >> = << <<0,1021,<<13087,5696,6772,158>>>>, <<1,1022,<<>>>> >> -> <<0,1024,<<4158,6371,6764,316>>>>
           [] << y, x >> = << <<0,1021,<<13088,5696,6772,158>>>>, <<0,1074,<<5460,5461,5461,341>>>> >> -> <<0,969,<<3250,8545,10158,749>>>>
           [] << y, x >> = << <<0,1021,<<3439,14998,11521,279>>>>, <<0,1019,<<10478,2436,2261,984>>>> >> -> <<0,1023,<<13611,3195,1507,208>>>>
           [] << y, x >> = << <<0,1021,<<3439,14998,11521,279>>>>, <<0,1019,<<10479,2436,2261,984>>>> >> -> <<0,1023,<<13611,3195,1507,208>>>>
           [] << y, x >> = << <<0,1021,<<3440,14998,11521,279>>>>, <<0,1019,<<10480,2436,2261,984>>>> >> -> <<0,1023,<<13611,3195,1507,208>>>>
           [] << y, x >> = << <<0,1021,<<5461,5461,5461,341>>>>, <<0,1074,<<5461,5461,5461,341>>>> >> -> <<0,970,<<>>>>
           [] << y, x >> = << <<0,1021,<<5461,5461,5461,341>>>>, <<1,967,<<4103,15127,814,482>>>> >> -> <<0,1023,<<11545,4368,8117,584>>>>
           [] << y, x >> = << <<0,1021,<<5461,5461,5461,341>>>>, <<1,967,<<4104,15127,814,482>>>> >> -> <<0,1023,<<11545,4368,8117,584>>>>
           [] << y, x >> = << <<0,1021,<<5464,5461,5461,341>>>>, <<0,1074,<<5460,5461,5461,341>>>> >> -> <<0,970,<<3>>>>
           [] << y, x >> = << <<0,1021,<<5464,5461,5461,341>>>>, <<0,1074,<<5461,5461,5461,341>>>> >> -> <<0,970,<<2>>>>
           [] << y, x >> = << <<0,1021,<<5464,5461,5461,341>>>>, <<1,1021,<<5461,5461,5461,341>>>> >> -> <<0,1024,<<8658,15564,6087,182>>>>
           [] << y, x >> = << <<0,1021,<<5464,5461,5461,341>>>>, <<1,1021,<<5463,5461,5461,341>>>> >> -> <<0,1024,<<8658,15564,6087,182>>>>
           [] << y, x >> = << <<0,1021,<<3448,15007,7061,348>>>>, <<0,1074,<<5461,5461,5461,341>>>> >> -> <<0,970,<<6682,7159,5296,5>>>>
           [] << y, x >> = << <<0,1021,<<6486,706,3933,475>>>>, <<0,1075,<<>>>> >> -> <<0,969,<<6486,706,3933,475>>>>
           [] << y, x >> = << <<0,1021,<<14223,5225,4150,524>>>>, <<0,1074,<<5461,5461,5461,341>>>> >> -> <<0,970,<<6572,12111,3112,137>>>>
           [] << y, x >> = << <<0,1021,<<14224,5225,4150,524>>>>, <<0,1074,<<5460,5461,5461,341>>>> >> -> <<0,970,<<6573,12111,3112,137>>>>
           [] << y, x >> = << <<0,1021,<<14224,5225,4150,524>>>>, <<0,1074,<<5461,5461,5461,341>>>> >> -> <<0,970,<<6572,12111,3112,137>>>>
           [] << y, x >> = << <<0,1021,<<14224,5225,4150,524>>>>, <<1,1020,<<5464,5461,5461,341>>>> >> -> <<0,1023,<<14600,14180,12213,1009>>>>
           [] << y, x >> = << <<0,1021,<<14224,5225,4150,524>>>>, <<1,1020,<<5465,5461,5461,341>>>> >> -> <<0,1023,<<14600,14180,12213,1009>>>>
           [] << y, x >> = << <<0,1021,<<14225,5225,4150,524>>>>, <<0,1074,<<5460,5461,5461,341>>>> >> -> <<0,970,<<6574,12111,3112,137>>>>
           [] << y, x >> = << <<0,1021,<<12208,14771,5750,531>>>>, <<0,1074,<<5461,5461,5461,341>>>> >> -> <<0,970,<<13252,2886,8409,142>>>>
           [] << y, x >> = << <<0,1021,<<12209,14771,5750,531>>>>, <<0,1074,<<5461,5461,5461,341>>>> >> -> <<0,970,<<13253,2886,8409,142>>>>
           [] << y, x >> = << <<0,1021,<<13056,12817,7045,612>>>>, <<1,1021,<<16382,16383,16383,511>>>> >> -> <<0,1024,<<2162,5372,2761,166>>>>
           [] << y, x >> = << <<0,1021,<<4585,14536,4439,714>>>>, <<0,1074,<<5461,5461,5461,341>>>> >> -> <<0,970,<<3439,14998,11521,279>>>>
           [] << y, x >> = << <<0,1021,<<4587,14536,4439,714>>>>, <<0,1074,<<5461,5461,5461,341>>>> >> -> <<0,970,<<3441,14998,11521,279>>>>
           [] << y, x >> = << <<0,1021,<<3241,8545,10158,749>>>>, <<0,1021,<<2>>>> >> -> <<0,1023,<<13156,8373,5411,48>>>>
           [] << y, x >> = << <<0,1021,<<3243,8545,10158,749>>>>, <<0,1021,<<2>>>> >> -> <<0,1023,<<13157,8373,5411,48>>>>
           [] << y, x >> = << <<0,1021,<<3243,8545,10158,749>>>>, <<0,1075,<<>>>> >> -> <<0,969,<<3243,8545,10158,749>>>>
           [] << y, x >> = << <<0,1021,<<3243,8545,10158,749>>>>, <<1,1020,<<16381,16383,16383,1023>>>> >> -> <<0,1024,<<13157,8373,5411,48>>>>
           [] << y, x >> = << <<0,1021,<<3244,8545,10158,749>>>>, <<1,1020,<<16382,16383,16383,1023>>>> >> -> <<0,1024,<<13157,8373,5411,48>>>>
           [] << y, x >> = << <<0,1021,<<3244,8545,10158,749>>>>, <<1,1022,<<16383,16383,16383,511>>>> >> -> <<0,1024,<<4159,6371,6764,316>>>>
           [] << y, x >> = << <<0,1021,<<9814,4272,13271,886>>>>, <<1,1019,<<16381,16383,16383,1023>>>> >> -> <<0,1023,<<2545,2366,9470,852>>>>
           [] << y, x >> = << <<0,1021,<<9816,4272,13271,886>>>>, <<1,1021,<<16383,16383,16383,511>>>> >> -> <<0,1024,<<2800,6089,14975,126>>>>
           [] << y, x >> = << <<0,1021,<<9816,4272,13271,886>>>>, <<1,1021,<<0,0,0,512>>>> >> -> <<0,1024,<<2800,6089,14975,126>>>>
           [] << y, x >> = << <<0,1021,<<16382,16383,16383,1023>>>>, <<0,1022,<<>>>> >> -> <<0,1022,<<11543,4368,8117,584>>>>
           [] << y, x >> = << <<0,1022,<<>>>>, <<0,0,<<>>>> >> -> <<0,1023,<<11544,4368,8117,584>>>>
           [] << y, x >> = << <<0,1022,<<>>>>, <<0,916,<<>>>> >> -> <<0,1023,<<11544,4368,8117,584>>>>
           [] << y, x >> = << <<0,1022,<<>>>>, <<0,1022,<<>>>> >> -> <<0,1022,<<11544,4368,8117,584>>>>
           [] << y, x >> = << <<0,1022,<<>>>>, <<0,1075,<<>>>> >> -> <<0,970,<<>>>>
           [] << y, x >> = << <<0,1022,<<1>>>>, <<1,1020,<<16383,16383,16383,1023>>>> >> -> <<0,1024,<<3574,11065,10408,17>>>>
           [] << y, x >> = << <<0,1022,<<1>>>>, <<1,1021,<<>>>> >> -> <<0,1024,<<3574,11065,10408,17>>>>
           [] << y, x >> = << <<0,1022,<<1>>>>, <<1,1021,<<1>>>> >> -> <<0,1024,<<3574,11065,10408,17>>>>
           [] << y, x >> = << <<0,1022,<<1>>>>, <<1,1021,<<16383,16383,16383,1023>>>> >> -> <<0,1024,<<8658,15564,6087,182>>>>
           [] << y, x >> = << <<0,1022,<<2>>>>, <<0,1074,<<16383,16383,16383,1023>>>> >> -> <<0,970,<<3>>>>
           [] << y, x >> = << <<0,1022,<<6681,7159,5296,5>>>>, <<0,1020,<<10488,2436,2261,984>>>> >> -> <<0,1023,<<7480,2378,13418,119>>>>
           [] << y, x >> = << <<0,1022,<<8704,14006,15619,66>>>>, <<0,1074,<<5461,5461,5461,341>>>> >> -> <<0,970,<<13056,12817,7045,612>>>>
           [] << y, x >> = << <<0,1022,<<11478,6055,9748,68>>>>, <<1,1020,<<1>>>> >> -> <<0,1023,<<5938,14749,2816,820>>>>
           [] << y, x >> = << <<0,1022,<<11478,6055,9748,68>>>>, <<1,1020,<<2>>>> >> -> <<0,1023,<<5938,14749,2816,820>>>>
           [] << y, x >> = << <<0,1022,<<6572,12111,3112,137>>>>, <<0,1074,<<16383,16383,16383,1023>>>> >> -> <<0,970,<<6573,12111,3112,137>>>>
           [] << y, x >> = << <<0,1022,<<13251,2886,8409,142>>>>, <<0,1021,<<5243,9410,1130,1004>>>> >> -> <<0,1022,<<191,8762,7746,727>>>>
           [] << y, x >> = << <<0,1022,<<13084,5696,6772,158>>>>, <<0,970,<<5461,5461,5461,341>>>> >> -> <<0,1023,<<11543,4368,8117,584>>>>
           [] << y, x >> = << <<0,1022,<<13085,5696,6772,158>>>>, <<0,970,<<5461,5461,5461,341>>>> >> -> <<0,1023,<<11543,4368,8117,584>>>>
           [] << y, x >> = << <<0,1022,<<13085,5696,6772,158>>>>, <<0,1074,<<5461,5461,5461,341>>>> >> -> <<0,970,<<3244,8545,10158,749>>>>
           [] << y, x >> = << <<0,1022,<<13085,5696,6772,158>>>>, <<1,1022,<<5460,5461,5461,341>>>> >> -> <<0,1024,<<1357,3795,1123,219>>>>
           [] << y, x >> = << <<0,1022,<<1080,13771,14308,249>>>>, <<0,1020,<<5464,5461,5461,341>>>> >> -> <<0,1023,<<4158,6371,6764,316>>>>
           [] << y, x >> = << <<0,1022,<<1080,13771,14308,249>>>>, <<0,1020,<<5465,5461,5461,341>>>> >> -> <<0,1023,<<4158,6371,6764,316>>>>
           [] << y, x >> = << <<0,1022,<<1081,13771,14308,249>>>>, <<0,1020,<<5464,5461,5461,341>>>> >> -> <<0,1023,<<4158,6371,6764,316>>>>
           [] << y, x >> = << <<0,1022,<<1081,13771,14308,249>>>>, <<0,1020,<<5465,5461,5461,341>>>> >> -> <<0,1023,<<4158,6371,6764,316>>>>
           [] << y, x >> = << <<0,1022,<<1081,13771,14308,249>>>>, <<0,1074,<<5461,5461,5461,341>>>> >> -> <<0,970,<<9814,4272,13271,886>>>>
           [] << y, x >> = << <<0,1022,<<1081,13771,14308,249>>>>, <<1,1021,<<16381,16383,16383,1023>>>> >> -> <<0,1024,<<2800,6089,14975,126>>>>
           [] << y, x >> = << <<0,1022,<<1081,13771,14308,249>>>>, <<1,1021,<<16383,16383,16383,1023>>>> >> -> <<0,1024,<<2800,6089,14975,126>>>>
           [] << y, x >> = << <<0,1022,<<1082,13771,14308,249>>>>, <<1,1021,<<16383,16383,16383,1023>>>> >> -> <<0,1024,<<2800,6089,14975,126>>>>
           [] << y, x >> = << <<0,1022,<<1083,13771,14308,249>>>>, <<0,1074,<<5461,5461,5461,341>>>> >> -> <<0,970,<<9817,4272,13271,886>>>>
           [] << y, x >> = << <<0,1022,<<73,2160,6917,253>>>>, <<1,1014,<<171,16186,12750,676>>>> >> -> <<0,1023,<<16034,853,13452,589>>>>
           [] << y, x >> = << <<0,1022,<<14719,14600,3522,306>>>>, <<1,1019,<<16372,16383,16383,1023>>>> >> -> <<0,1023,<<762,9521,3015,779>>>>
           [] << y, x >> = << <<0,1022,<<14720,14600,3522,306>>>>, <<1,1019,<<16372,16383,16383,1023>>>> >> -> <<0,1023,<<762,9521,3015,779>>>>
           [] << y, x >> = << <<0,1022,<<14720,14600,3522,306>>>>, <<1,1022,<<16382,16383,16383,255>>>> >> -> <<0,1024,<<9839,12547,8568,172>>>>
           [] << y, x >> = << <<0,1022,<<14721,14600,3522,306>>>>, <<1,1022,<<16382,16383,16383,255>>>> >> -> <<0,1024,<<9839,12547,8568,172>>>>
           [] << y, x >> = << <<0,1022,<<5461,5461,5461,341>>>>, <<0,1021,<<5461,5461,5461,341>>>> >> -> <<0,1023,<<15940,2990,11801,109>>>>
           [] << y, x >> = << <<0,1022,<<5461,5461,5461,341>>>>, <<0,1021,<<5463,5461,5461,341>>>> >> -> <<0,1023,<<15940,2990,11801,109>>>>
           [] << y, x >> = << <<0,1022,<<5461,5461,5461,341>>>>, <<0,1074,<<5461,5461,5461,341>>>> >> -> <<0,971,<<>>>>
           [] << y, x >> = << <<0,1022,<<5461,5461,5461,341>>>>, <<1,1021,<<5460,5461,5461,341>>>> >> -> <<0,1024,<<3574,11065,10408,17>>>>
           [] << y, x >> = << <<0,1022,<<5461,5461,5461,341>>>>, <<1,1021,<<5461,5461,5461,341>>>> >> -> <<0,1024,<<3574,11065,10408,17>>>>
           [] << y, x >> = << <<0,1022,<<5463,5461,5461,341>>>>, <<0,1074,<<5461,5461,5461,341>>>> >> -> <<0,971,<<2>>>>
           [] << y, x >> = << <<0,1022,<<4453,10234,14453,344>>>>, <<0,1020,<<6993,1624,12430,314>>>> >> -> <<0,1023,<<13613,4188,15503,338>>>>
           [] << y, x >> = << <<0,1022,<<9813,4272,13271,374>>>>, <<0,970,<<>>>> >> -> <<0,1023,<<11544,4368,8117,584>>>>
           [] << y, x >> = << <<0,1022,<<9813,4272,13271,374>>>>, <<0,970,<<2945,6538,3148,141>>>> >> -> <<0,1023,<<11543,4368,8117,584>>>>
           [] << y, x >> = << <<0,1022,<<9813,4272,13271,374>>>>, <<0,970,<<0,0,0,256>>>> >> -> <<0,1023,<<11543,4368,8117,584>>>>
           [] << y, x >> = << <<0,1022,<<9814,4272,13271,374>>>>, <<0,970,<<>>>> >> -> <<0,1023,<<11544,4368,8117,584>>>>
           [] << y, x >> = << <<0,1022,<<9814,4272,13271,374>>>>, <<0,970,<<2945,6538,3148,141>>>> >> -> <<0,1023,<<11543,4368,8117,584>>>>
           [] << y, x >> = << <<0,1022,<<9814,4272,13271,374>>>>, <<0,970,<<0,0,0,256>>>> >> -> <<0,1023,<<11543,4368,8117,584>>>>
           [] << y, x >> = << <<0,1022,<<9814,4272,13271,374>>>>, <<1,1021,<<16381,16383,16383,1023>>>> >> -> <<0,1024,<<2631,1465,12908,103>>>>
           [] << y, x >> = << <<0,1022,<<9814,4272,13271,374>>>>, <<1,1021,<<16382,16383,16383,1023>>>> >> -> <<0,1024,<<2631,1465,12908,103>>>>
           [] << y, x >> = << <<0,1022,<<4962,7852,7727,377>>>>, <<1,1020,<<11136,6973,15253,19>>>> >> -> <<0,1023,<<448,10454,421,773>>>>
           [] << y, x >> = << <<0,1022,<<9843,13535,12997,432>>>>, <<0,1074,<<5461,5461,5461,341>>>> >> -> <<0,971,<<11479,6055,9748,68>>>>
           [] << y, x >> = << <<0,1022,<<8835,1924,5606,436>>>>, <<0,1021,<<14419,11734,753,328>>>> >> -> <<0,1023,<<11917,5848,8903,140>>>>
           [] << y, x >> = << <<0,1022,<<4906,10328,6635,443>>>>, <<0,1020,<<2>>>> >> -> <<0,1023,<<1852,2904,10335,407>>>>
           [] << y, x >> = << <<0,1022,<<4906,10328,6635,443>>>>, <<0,1020,<<3>>>> >> -> <<0,1023,<<1852,2904,10335,407>>>>
           [] << y, x >> = << <<0,1022,<<4906,10328,6635,443>>>>, <<0,1020,<<4>>>> >> -> <<0,1023,<<1852,2904,10335,407>>>>
           [] << y, x >> = << <<0,1022,<<4907,10328,6635,443>>>>, <<0,1020,<<2>>>> >> -> <<0,1023,<<1852,2904,10335,407>>>>
           [] << y, x >> = << <<0,1022,<<4907,10328,6635,443>>>>, <<0,1020,<<3>>>> >> -> <<0,1023,<<1852,2904,10335,407>>>>
           [] << y, x >> = << <<0,1022,<<4907,10328,6635,443>>>>, <<0,1020,<<4>>>> >> -> <<0,1023,<<1852,2904,10335,407>>>>
           [] << y, x >> = << <<0,1022,<<4907,10328,6635,443>>>>, <<1,1021,<<16382,16383,16383,511>>>> >> -> <<0,1024,<<2042,14045,1950,27>>>>
           [] << y, x >> = << <<0,1022,<<4907,10328,6635,443>>>>, <<1,1021,<<16383,16383,16383,511>>>> >> -> <<0,1024,<<2042,14045,1950,27>>>>
           [] << y, x >> = << <<0,1022,<<55,13908,1091,446>>>>, <<1,1014,<<8256,3947,9563,251>>>> >> -> <<0,1023,<<14858,15438,15830,587>>>>
           [] << y, x >> = << <<0,1022,<<55,13908,1091,446>>>>, <<1,1014,<<8285,3947,9563,251>>>> >> -> <<0,1023,<<14858,15438,15830,587>>>>
           [] << y, x >> = << <<0,1022,<<55,13908,1091,446>>>>, <<1,1014,<<8288,3947,9563,251>>>> >> -> <<0,1023,<<14858,15438,15830,587>>>>
           [] << y, x >> = << <<0,1022,<<16383,16383,16383,511>>>>, <<0,1021,<<1>>>> >> -> <<0,1023,<<1375,11754,374,255>>>>
           [] << y, x >> = << <<0,1022,<<0,0,0,512>>>>, <<0,1021,<<>>>> >> -> <<0,1023,<<1376,11754,374,255>>>>
           [] << y, x >> = << <<0,1022,<<0,0,0,512>>>>, <<1,1020,<<16381,16383,16383,1023>>>> >> -> <<0,1023,<<5328,13367,15859,913>>>>
           [] << y, x >> = << <<0,1022,<<0,0,0,512>>>>, <<1,1020,<<16382,16383,16383,1023>>>> >> -> <<0,1023,<<5328,13367,15859,913>>>>
           [] << y, x >> = << <<0,1022,<<11532,3579,10840,514>>>>, <<0,1019,<<10490,2436,2261,984>>>> >> -> <<0,1023,<<8274,9095,14727,418>>>>
           [] << y, x >> = << <<0,1022,<<11532,3579,10840,514>>>>, <<0,1019,<<10491,2436,2261,984>>>> >> -> <<0,1023,<<8274,9095,14727,418>>>>
           [] << y, x >> = << <<0,1022,<<11533,3579,10840,514>>>>, <<0,1019,<<10492,2436,2261,984>>>> >> -> <<0,1023,<<8274,9095,14727,418>>>>
           [] << y, x >> = << <<0,1022,<<6626,9635,4204,583>>>>, <<0,1020,<<5245,9410,1130,1004>>>> >> -> <<0,1023,<<11708,7916,9615,271>>>>
           [] << y, x >> = << <<0,1022,<<3241,8545,10158,749>>>>, <<0,1076,<<>>>> >> -> <<0,969,<<3241,8545,10158,749>>>>
           [] << y, x >> = << <<0,1022,<<3242,8545,10158,749>>>>, <<0,1075,<<>>>> >> -> <<0,970,<<3242,8545,10158,749>>>>
           [] << y, x >> = << <<0,1022,<<3243,8545,10158,749>>>>, <<0,1074,<<5461,5461,5461,341>>>> >> -> <<0,971,<<14721,14600,3522,306>>>>
           [] << y, x >> = << <<0,1022,<<3243,8545,10158,749>>>>, <<0,1075,<<>>>> >> -> <<0,970,<<3243,8545,10158,749>>>>
           [] << y, x >> = << <<0,1022,<<3243,8545,10158,749>>>>, <<0,1076,<<>>>> >> -> <<0,969,<<3243,8545,10158,749>>>>
           [] << y, x >> = << <<0,1022,<<3243,8545,10158,749>>>>, <<1,1021,<<16380,16383,16383,1023>>>> >> -> <<0,1024,<<13157,8373,5411,48>>>>
           [] << y, x >> = << <<0,1022,<<3244,8545,10158,749>>>>, <<0,1074,<<5461,5461,5461,341>>>> >> -> <<0,971,<<14721,14600,3522,306>>>>
           [] << y, x >> = << <<0,1022,<<3244,8545,10158,749>>>>, <<0,1074,<<16383,16383,16383,1023>>>> >> -> <<0,970,<<3245,8545,10158,749>>>>
           [] << y, x >> = << <<0,1022,<<3244,8545,10158,749>>>>, <<0,1075,<<16383,16383,16383,1023>>>> >> -> <<0,969,<<3245,8545,10158,749>>>>
           [] << y, x >> = << <<0,1022,<<14721,14600,3522,818>>>>, <<1,1021,<<16381,16383,16383,511>>>> >> -> <<0,1023,<<6440,10259,15661,988>>>>
           [] << y, x >> = << <<0,1022,<<7623,235,1311,841>>>>, <<0,1074,<<5461,5461,5461,341>>>> >> -> <<0,971,<<9814,4272,13271,374>>>>
           [] << y, x >> = << <<0,1022,<<7624,235,1311,841>>>>, <<0,1074,<<5461,5461,5461,341>>>> >> -> <<0,971,<<9814,4272,13271,374>>>>
           [] << y, x >> = << <<0,1022,<<7624,235,1311,841>>>>, <<1,1021,<<5459,5461,5461,341>>>> >> -> <<0,1023,<<239,15283,13040,943>>>>
           [] << y, x >> = << <<0,1022,<<6616,5008,10303,844>>>>, <<0,1074,<<5461,5461,5461,341>>>> >> -> <<0,971,<<4962,7852,7727,377>>>>
           [] << y, x >> = << <<0,1022,<<9812,4272,13271,886>>>>, <<0,1075,<<>>>> >> -> <<0,970,<<9812,4272,13271,886>>>>
           [] << y, x >> = << <<0,1022,<<9814,4272,13271,886>>>>, <<0,1074,<<16383,16383,16383,1023>>>> >> -> <<0,970,<<9815,4272,13271,886>>>>
           [] << y, x >> = << <<0,1022,<<9814,4272,13271,886>>>>, <<0,1075,<<>>>> >> -> <<0,970,<<9814,4272,13271,886>>>>
           [] << y, x >> = << <<0,1022,<<9814,4272,13271,886>>>>, <<1,1020,<<16379,16383,16383,1023>>>> >> -> <<0,1023,<<2545,2366,9470,852>>>>
           [] << y, x >> = << <<0,1022,<<110,11432,2183,892>>>>, <<0,1075,<<>>>> >> -> <<0,970,<<110,11432,2183,892>>>>
           [] << y, x >> = << <<0,1022,<<12003,8309,8847,932>>>>, <<0,1074,<<5461,5461,5461,341>>>> >> -> <<0,971,<<4907,10328,6635,443>>>>
           [] << y, x >> = << <<0,1022,<<12004,8309,8847,932>>>>, <<0,1074,<<5461,5461,5461,341>>>> >> -> <<0,971,<<4907,10328,6635,443>>>>
           [] << y, x >> = << <<0,1022,<<12004,8309,8847,932>>>>, <<1,1020,<<5457,5461,5461,341>>>> >> -> <<0,1023,<<4851,5833,5899,761>>>>
           [] << y, x >> = << <<0,1022,<<10996,13082,1455,936>>>>, <<0,1074,<<5461,5461,5461,341>>>> >> -> <<0,971,<<55,13908,1091,446>>>>
           [] << y, x >> = << <<0,1022,<<4907,10328,6635,955>>>>, <<1,1019,<<16377,16383,16383,1023>>>> >> -> <<0,1023,<<15034,10856,3278,716>>>>
           [] << y, x >> = << <<0,1022,<<16382,16383,16383,1023>>>>, <<0,1076,<<>>>> >> -> <<0,969,<<16382,16383,16383,1023>>>>
           [] << y, x >> = << <<0,1022,<<16383,16383,16383,1023>>>>, <<0,1075,<<>>>> >> -> <<0,970,<<16383,16383,16383,1023>>>>
           [] << y, x >> = << <<0,1023,<<>>>>, <<0,969,<<7175,3153,8803,105>>>> >> -> <<0,1023,<<11544,4368,8117,584>>>>
           [] << y, x >> = << <<0,1023,<<>>>>, <<0,1074,<<5461,5461,5461,341>>>> >> -> <<0,971,<<0,0,0,512>>>>
           [] << y, x >> = << <<0,1023,<<>>>>, <<0,1074,<<16383,16383,16383,1023>>>> >> -> <<0,971,<<>>>>
           [] << y, x >> = << <<0,1023,<<>>>>, <<0,1075,<<>>>> >> -> <<0,971,<<>>>>
           [] << y, x >> = << <<0,1023,<<>>>>, <<0,1076,<<>>>> >> -> <<0,970,<<>>>>
           [] << y, x >> = << <<0,1023,<<1>>>>, <<0,1075,<<16383,16383,16383,1023>>>> >> -> <<0,970,<<2>>>>
           [] << y, x >> = << <<0,1023,<<7688,2386,12688,1>>>>, <<0,1074,<<5461,5461,5461,341>>>> >> -> <<0,971,<<11532,3579,10840,514>>>>
           [] << y, x >> = << <<0,1023,<<7689,2386,12688,1>>>>, <<0,1074,<<5461,5461,5461,341>>>> >> -> <<0,971,<<11534,3579,10840,514>>>>
           [] << y, x >> = << <<0,1023,<<11532,3579,10840,2>>>>, <<0,1075,<<>>>> >> -> <<0,971,<<11532,3579,10840,2>>>>
           [] << y, x >> = << <<0,1023,<<6681,7159,5296,5>>>>, <<0,1076,<<>>>> >> -> <<0,970,<<6681,7159,5296,5>>>>
           [] << y, x >> = << <<0,1023,<<9879,6423,8264,47>>>>, <<0,1074,<<5461,5461,5461,341>>>> >> -> <<0,971,<<6627,9635,4204,583>>>>
           [] << y, x >> = << <<0,1023,<<6626,9635,4204,71>>>>, <<0,1075,<<>>>> >> -> <<0,971,<<6626,9635,4204,71>>>>
           [] << y, x >> = << <<0,1023,<<13251,2886,8409,142>>>>, <<0,1076,<<>>>> >> -> <<0,970,<<13251,2886,8409,142>>>>
           [] << y, x >> = << <<0,1023,<<15275,9733,2348,204>>>>, <<0,1074,<<5461,5461,5461,341>>>> >> -> <<0,971,<<14721,14600,3522,818>>>>
           [] << y, x >> = << <<0,1023,<<1081,13771,14308,249>>>>, <<0,1074,<<5461,5461,5461,341>>>> >> -> <<0,971,<<9814,4272,13271,886>>>>
           [] << y, x >> = << <<0,1023,<<3271,1424,9885,295>>>>, <<0,1074,<<5461,5461,5461,341>>>> >> -> <<0,971,<<4907,10328,6635,955>>>>
           [] << y, x >> = << <<0,1023,<<5461,5461,5461,341>>>>, <<0,1074,<<5461,5461,5461,341>>>> >> -> <<0,972,<<>>>>
           [] << y, x >> = << <<0,1023,<<9814,4272,13271,374>>>>, <<0,1075,<<>>>> >> -> <<0,971,<<9814,4272,13271,374>>>>
           [] << y, x >> = << <<0,1023,<<4907,10328,6635,443>>>>, <<0,1075,<<>>>> >> -> <<0,971,<<4907,10328,6635,443>>>>
           [] << y, x >> = << <<0,1023,<<0,0,0,512>>>>, <<0,1075,<<>>>> >> -> <<0,971,<<0,0,0,512>>>>
           [] << y, x >> = << <<0,1023,<<9814,4272,13271,886>>>>, <<0,1076,<<>>>> >> -> <<0,970,<<9814,4272,13271,886>>>>
           [] << y, x >> = << <<0,1024,<<>>>>, <<0,1076,<<>>>> >> -> <<0,971,<<>>>>
           [] << y, x >> = << <<1,971,<<7175,3153,8803,105>>>>, <<0,1023,<<>>>> >> -> <<1,971,<<7175,3153,8803,105>>>>
           [] << y, x >> = << <<1,1018,<<3400,14971,8517,73>>>>, <<1,1021,<<1,0,0,512>>>> >> -> <<1,1024,<<4506,14294,14523,538>>>>
           [] << y, x >> = << <<1,1018,<<4533,14500,5895,439>>>>, <<0,1074,<<5461,5461,5461,341>>>> >> -> <<1,967,<<3400,14971,8517,73>>>>
           [] << y, x >> = << <<1,1019,<<3412,14971,8517,73>>>>, <<1,1020,<<16383,16383,16383,1023>>>> >> -> <<1,1024,<<16044,13561,7440,450>>>>
           [] << y, x >> = << <<1,1020,<<3412,14971,8517,73>>>>, <<0,1076,<<>>>> >> -> <<1,967,<<3412,14971,8517,73>>>>
           [] << y, x >> = << <<1,1020,<<12746,11316,3498,190>>>>, <<1,1014,<<9024,3947,9563,251>>>> >> -> <<1,1023,<<6207,1869,4958,601>>>>
           [] << y, x >> = << <<1,1020,<<12746,11316,3498,190>>>>, <<1,1014,<<9053,3947,9563,251>>>> >> -> <<1,1023,<<6208,1869,4958,601>>>>
           [] << y, x >> = << <<1,1020,<<12746,11316,3498,190>>>>, <<1,1014,<<9056,3947,9563,251>>>> >> -> <<1,1023,<<6208,1869,4958,601>>>>
           [] << y, x >> = << <<1,1020,<<9502,2771,9724,464>>>>, <<1,1020,<<11148,6973,15253,19>>>> >> -> <<1,1024,<<6707,10062,6247,93>>>>
           [] << y, x >> = << <<1,1020,<<9503,2771,9724,464>>>>, <<1,1020,<<11148,6973,15253,19>>>> >> -> <<1,1024,<<6707,10062,6247,93>>>>
           [] << y, x >> = << <<1,1020,<<6478,706,3933,475>>>>, <<1,1022,<<2>>>> >> -> <<1,1024,<<9006,7103,13847,404>>>>
           [] << y, x >> = << <<1,1020,<<6479,706,3933,475>>>>, <<1,1022,<<2>>>> >> -> <<1,1024,<<9006,7103,13847,404>>>>
           [] << y, x >> = << <<1,1020,<<6480,706,3933,475>>>>, <<1,970,<<13439,9845,13235,882>>>> >> -> <<1,1023,<<11549,4368,8117,584>>>>
           [] << y, x >> = << <<1,1020,<<6480,706,3933,475>>>>, <<1,970,<<0,0,0,896>>>> >> -> <<1,1023,<<11549,4368,8117,584>>>>
           [] << y, x >> = << <<1,1020,<<6480,706,3933,475>>>>, <<1,971,<<>>>> >> -> <<1,1023,<<11550,4368,8117,584>>>>
           [] << y, x >> = << <<1,1020,<<6480,706,3933,475>>>>, <<1,1022,<<2>>>> >> -> <<1,1024,<<9006,7103,13847,404>>>>
           [] << y, x >> = << <<1,1020,<<6482,706,3933,475>>>>, <<1,970,<<13439,9845,13235,882>>>> >> -> <<1,1023,<<11549,4368,8117,584>>>>
           [] << y, x >> = << <<1,1020,<<6482,706,3933,475>>>>, <<1,970,<<0,0,0,896>>>> >> -> <<1,1023,<<11549,4368,8117,584>>>>
           [] << y, x >> = << <<1,1020,<<6482,706,3933,475>>>>, <<1,971,<<>>>> >> -> <<1,1023,<<11550,4368,8117,584>>>>
           [] << y, x >> = << <<1,1020,<<11533,9627,15587,594>>>>, <<0,1074,<<5460,5461,5461,341>>>> >> -> <<1,969,<<12747,11316,3498,190>>>>
           [] << y, x >> = << <<1,1020,<<3236,8545,10158,749>>>>, <<1,1022,<<1,0,0,256>>>> >> -> <<1,1024,<<6961,8947,12405,413>>>>
           [] << y, x >> = << <<1,1020,<<3237,8545,10158,749>>>>, <<1,1020,<<6>>>> >> -> <<1,1024,<<13159,8373,5411,48>>>>
           [] << y, x >> = << <<1,1020,<<3237,8545,10158,749>>>>, <<1,1022,<<2,0,0,256>>>> >> -> <<1,1024,<<6961,8947,12405,413>>>>
           [] << y, x >> = << <<1,1020,<<3239,8545,10158,749>>>>, <<1,1020,<<6>>>> >> -> <<1,1024,<<13159,8373,5411,48>>>>
           [] << y, x >> = << <<1,1020,<<12669,9156,12965,960>>>>, <<0,1074,<<5460,5461,5461,341>>>> >> -> <<1,969,<<9503,2771,9724,464>>>>
           [] << y, x >> = << <<1,1020,<<12671,9156,12965,960>>>>, <<0,1074,<<5460,5461,5461,341>>>> >> -> <<1,969,<<9505,2771,9724,464>>>>
           [] << y, x >> = << <<1,1020,<<8637,11864,16166,974>>>>, <<0,1074,<<5459,5461,5461,341>>>> >> -> <<1,969,<<6480,706,3933,475>>>>
           [] << y, x >> = << <<1,1020,<<8639,11864,16166,974>>>>, <<0,1074,<<5459,5461,5461,341>>>> >> -> <<1,969,<<6482,706,3933,475>>>>
           [] << y, x >> = << <<1,1020,<<8640,11864,16166,974>>>>, <<0,1074,<<5459,5461,5461,341>>>> >> -> <<1,969,<<6483,706,3933,475>>>>
           [] << y, x >> = << <<1,1020,<<8640,11864,16166,974>>>>, <<0,1074,<<5460,5461,5461,341>>>> >> -> <<1,969,<<6481,706,3933,475>>>>
           [] << y, x >> = << <<1,1020,<<8640,11864,16166,974>>>>, <<1,1021,<<5467,5461,5461,341>>>> >> -> <<1,1024,<<14687,13279,15651,260>>>>
           [] << y, x >> = << <<1,1020,<<8643,11864,16166,974>>>>, <<0,1074,<<5460,5461,5461,341>>>> >> -> <<1,969,<<6484,706,3933,475>>>>
           [] << y, x >> = << <<1,1021,<<13080,5696,6772,158>>>>, <<0,1074,<<5459,5461,5461,341>>>> >> -> <<1,969,<<3239,8545,10158,749>>>>
           [] << y, x >> = << <<1,1021,<<13081,5696,6772,158>>>>, <<0,1074,<<5459,5461,5461,341>>>> >> -> <<1,969,<<3241,8545,10158,749>>>>
           [] << y, x >> = << <<1,1021,<<13081,5696,6772,158>>>>, <<0,1074,<<5460,5461,5461,341>>>> >> -> <<1,969,<<3239,8545,10158,749>>>>
           [] << y, x >> = << <<1,1021,<<13081,5696,6772,158>>>>, <<1,1022,<<2>>>> >> -> <<1,1024,<<4160,6371,6764,316>>>>
           [] << y, x >> = << <<1,1021,<<13082,5696,6772,158>>>>, <<0,1074,<<5460,5461,5461,341>>>> >> -> <<1,969,<<3241,8545,10158,749>>>>
           [] << y, x >> = << <<1,1021,<<13083,5696,6772,158>>>>, <<1,1020,<<5468,5461,5461,341>>>> >> -> <<1,1024,<<13159,8373,5411,48>>>>
           [] << y, x >> = << <<1,1021,<<5459,5461,5461,341>>>>, <<1,1021,<<5464,5461,5461,341>>>> >> -> <<1,1024,<<8659,15564,6087,182>>>>
           [] << y, x >> = << <<1,1021,<<9506,2771,9724,464>>>>, <<0,1020,<<10476,2436,2261,984>>>> >> -> <<1,1022,<<4902,12354,11193,977>>>>
           [] << y, x >> = << <<1,1021,<<6480,706,3933,475>>>>, <<0,1074,<<16382,16383,16383,1023>>>> >> -> <<1,969,<<6481,706,3933,475>>>>
           [] << y, x >> = << <<1,1021,<<13052,12817,7045,612>>>>, <<1,1021,<<6,0,0,512>>>> >> -> <<1,1024,<<2164,5372,2761,166>>>>
           [] << y, x >> = << <<1,1021,<<3239,8545,10158,749>>>>, <<1,1022,<<2,0,0,512>>>> >> -> <<1,1024,<<4160,6371,6764,316>>>>
           [] << y, x >> = << <<1,1021,<<3240,8545,10158,749>>>>, <<0,1020,<<16376,16383,16383,1023>>>> >> -> <<1,1023,<<13159,8373,5411,48>>>>
           [] << y, x >> = << <<1,1021,<<3240,8545,10158,749>>>>, <<0,1074,<<16383,16383,16383,1023>>>> >> -> <<1,969,<<3241,8545,10158,749>>>>
           [] << y, x >> = << <<1,1021,<<3240,8545,10158,749>>>>, <<1,1021,<<4>>>> >> -> <<1,1024,<<13159,8373,5411,48>>>>
           [] << y, x >> = << <<1,1021,<<3240,8545,10158,749>>>>, <<1,1021,<<5>>>> >> -> <<1,1024,<<13159,8373,5411,48>>>>
           [] << y, x >> = << <<1,1021,<<3242,8545,10158,749>>>>, <<0,1020,<<16376,16383,16383,1023>>>> >> -> <<1,1023,<<13159,8373,5411,48>>>>
           [] << y, x >> = << <<1,1021,<<9810,4272,13271,886>>>>, <<1,1021,<<4,0,0,512>>>> >> -> <<1,1024,<<2801,6089,14975,126>>>>
           [] << y, x >> = << <<1,1021,<<16381,16383,16383,1023>>>>, <<0,1074,<<16383,16383,16383,1023>>>> >> -> <<1,969,<<16382,16383,16383,1023>>>>
           [] << y, x >> = << <<1,1022,<<9710,9233,6627,63>>>>, <<1,1014,<<1195,16186,12750,676>>>> >> -> <<1,1023,<<11952,15924,12314,590>>>>
           [] << y, x >> = << <<1,1022,<<8701,14006,15619,66>>>>, <<0,1074,<<5459,5461,5461,341>>>> >> -> <<1,970,<<13054,12817,7045,612>>>>
           [] << y, x >> = << <<1,1022,<<13083,5696,6772,158>>>>, <<0,1074,<<5460,5461,5461,341>>>> >> -> <<1,970,<<3242,8545,10158,749>>>>
           [] << y, x >> = << <<1,1022,<<13083,5696,6772,158>>>>, <<1,971,<<5461,5461,5461,341>>>> >> -> <<1,1023,<<11547,4368,8117,584>>>>
           [] << y, x >> = << <<1,1022,<<13083,5696,6772,158>>>>, <<1,1022,<<5464,5461,5461,341>>>> >> -> <<1,1024,<<1358,3795,1123,219>>>>
           [] << y, x >> = << <<1,1022,<<8092,4965,15702,234>>>>, <<1,1020,<<11154,6973,15253,19>>>> >> -> <<1,1023,<<10899,15716,13213,793>>>>
           [] << y, x >> = << <<1,1022,<<1079,13771,14308,249>>>>, <<0,1074,<<5460,5461,5461,341>>>> >> -> <<1,970,<<9812,4272,13271,886>>>>
           [] << y, x >> = << <<1,1022,<<14718,14600,3522,306>>>>, <<1,1020,<<12>>>> >> -> <<1,1023,<<765,9521,3015,779>>>>
           [] << y, x >> = << <<1,1022,<<14718,14600,3522,306>>>>, <<1,1022,<<3,0,0,256>>>> >> -> <<1,1024,<<9840,12547,8568,172>>>>
           [] << y, x >> = << <<1,1022,<<14719,14600,3522,306>>>>, <<1,1020,<<12>>>> >> -> <<1,1023,<<765,9521,3015,779>>>>
           [] << y, x >> = << <<1,1022,<<9506,2771,9724,464>>>>, <<0,1075,<<16383,16383,16383,1023>>>> >> -> <<1,969,<<9507,2771,9724,464>>>>
           [] << y, x >> = << <<1,1022,<<6373,5658,1749,607>>>>, <<0,1074,<<16382,16383,16383,1023>>>> >> -> <<1,970,<<6375,5658,1749,607>>>>
           [] << y, x >> = << <<1,1022,<<16251,12081,10013,654>>>>, <<0,1074,<<5459,5461,5461,341>>>> >> -> <<1,971,<<8094,4965,15702,234>>>>
           [] << y, x >> = << <<1,1022,<<3239,8545,10158,749>>>>, <<0,1075,<<16382,16383,16383,1023>>>> >> -> <<1,969,<<3241,8545,10158,749>>>>
           [] << y, x >> = << <<1,1022,<<3240,8545,10158,749>>>>, <<0,1074,<<5459,5461,5461,341>>>> >> -> <<1,971,<<14720,14600,3522,306>>>>
           [] << y, x >> = << <<1,1022,<<3240,8545,10158,749>>>>, <<0,1074,<<16381,16383,16383,1023>>>> >> -> <<1,970,<<3243,8545,10158,749>>>>
           [] << y, x >> = << <<1,1022,<<3240,8545,10158,749>>>>, <<0,1074,<<16382,16383,16383,1023>>>> >> -> <<1,970,<<3242,8545,10158,749>>>>
           [] << y, x >> = << <<1,1022,<<3240,8545,10158,749>>>>, <<0,1075,<<16383,16383,16383,1023>>>> >> -> <<1,969,<<3241,8545,10158,749>>>>
           [] << y, x >> = << <<1,1022,<<3240,8545,10158,749>>>>, <<1,1022,<<4>>>> >> -> <<1,1024,<<13159,8373,5411,48>>>>
           [] << y, x >> = << <<1,1022,<<3241,8545,10158,749>>>>, <<0,1074,<<16382,16383,16383,1023>>>> >> -> <<1,970,<<3243,8545,10158,749>>>>
           [] << y, x >> = << <<1,1022,<<3242,8545,10158,749>>>>, <<0,1075,<<16383,16383,16383,1023>>>> >> -> <<1,969,<<3243,8545,10158,749>>>>
           [] << y, x >> = << <<1,1022,<<14718,14600,3522,818>>>>, <<1,1021,<<7,0,0,512>>>> >> -> <<1,1023,<<6443,10259,15661,988>>>>
           [] << y, x >> = << <<1,1022,<<7621,235,1311,841>>>>, <<1,1021,<<5468,5461,5461,341>>>> >> -> <<1,1023,<<241,15283,13040,943>>>>
           [] << y, x >> = << <<1,1022,<<9812,4272,13271,886>>>>, <<1,1021,<<6>>>> >> -> <<1,1023,<<2547,2366,9470,852>>>>
           [] << y, x >> = << <<1,1023,<<>>>>, <<1,970,<<2570,12922,5012,670>>>> >> -> <<1,1023,<<11545,4368,8117,584>>>>
           [] << y, x >> = << <<1,1023,<<15273,9733,2348,204>>>>, <<0,1074,<<5459,5461,5461,341>>>> >> -> <<1,971,<<14721,14600,3522,818>>>>
           [] << y, x >> = << <<1,1023,<<9812,4272,13271,374>>>>, <<0,1074,<<16382,16383,16383,1023>>>> >> -> <<1,971,<<9813,4272,13271,374>>>>
           [] << y, x >> = << <<1,1023,<<9812,4272,13271,886>>>>, <<0,1075,<<16383,16383,16383,1023>>>> >> -> <<1,970,<<9813,4272,13271,886>>>>

\* asin(x) of the platform's libm
Asin(x) ==
    IF FIsNaN(x) THEN NaN
    ELSE CASE x = <<0,0,<<>>>> -> <<0,0,<<>>>>
           [] x = <<0,996,<<15309,6652,2534,424>>>> -> <<0,996,<<15309,6652,2534,424>>>>
           [] x = <<0,1020,<<12543,11693,3056,812>>>> -> <<0,1020,<<12105,10472,15074,827>>>>
           [] x = <<0,1020,<<12552,11693,3056,812>>>> -> <<0,1020,<<12114,10472,15074,827>>>>
           [] x = <<0,1020,<<8635,11864,16166,974>>>> -> <<0,1020,<<9487,14162,6159,995>>>>
           [] x = <<0,1020,<<8652,11864,16166,974>>>> -> <<0,1020,<<9504,14162,6159,995>>>>
           [] x = <<0,1021,<<1677,1612,2012,36>>>> -> <<0,1021,<<13154,8373,5411,48>>>>
           [] x = <<0,1021,<<1685,1612,2012,36>>>> -> <<0,1021,<<13162,8373,5411,48>>>>
           [] x = <<0,1021,<<3238,8545,10158,749>>>> -> <<0,1021,<<2589,6886,5267,810>>>>
           [] x = <<0,1021,<<3245,8545,10158,749>>>> -> <<0,1021,<<2596,6886,5267,810>>>>
           [] x = <<0,1021,<<3247,8545,10158,749>>>> -> <<0,1021,<<2599,6886,5267,810>>>>
           [] x = <<0,1021,<<14946,14331,14301,906>>>> -> <<0,1021,<<15122,14700,10738,986>>>>
           [] x = <<0,1021,<<14952,14331,14301,906>>>> -> <<0,1021,<<15129,14700,10738,986>>>>
           [] x = <<0,1021,<<16380,16383,16383,1023>>>> -> <<0,1022,<<13155,8373,5411,48>>>>
           [] x = <<0,1022,<<>>>> -> <<0,1022,<<13158,8373,5411,48>>>>
           [] x = <<0,1022,<<13772,9729,7202,66>>>> -> <<0,1022,<<2705,6743,14992,125>>>>
           [] x = <<0,1022,<<9903,1720,9821,139>>>> -> <<0,1022,<<3277,14540,9021,213>>>>
           [] x = <<0,1022,<<13255,14536,10791,180>>>> -> <<0,1022,<<10800,11619,14376,263>>>>
           [] x = <<0,1022,<<2424,14013,1451,210>>>> -> <<0,1022,<<9207,10326,8340,300>>>>
           [] x = <<0,1022,<<2426,14013,1451,210>>>> -> <<0,1022,<<9209,10326,8340,300>>>>
           [] x = <<0,1022,<<8494,4132,2273,230>>>> -> <<0,1022,<<2852,773,12302,325>>>>
           [] x = <<0,1022,<<8495,4132,2273,230>>>> -> <<0,1022,<<2854,773,12302,325>>>>
           [] x = <<0,1022,<<14645,2569,12560,242>>>> -> <<0,1022,<<1038,11922,12659,341>>>>
           [] x = <<0,1022,<<1090,2542,1423,304>>>> -> <<0,1022,<<8332,10485,652,421>>>>
           [] x = <<0,1022,<<1091,2542,1423,304>>>> -> <<0,1022,<<8334,10485,652,421>>>>
           [] x = <<0,1022,<<4051,1249,9976,319>>>> -> <<0,1022,<<6512,16359,8487,441>>>>
           [] x = <<0,1022,<<5461,5461,5461,341>>>> -> <<0,1022,<<10462,317,7901,470>>>>
           [] x = <<0,1022,<<5462,5461,5461,341>>>> -> <<0,1022,<<10463,317,7901,470>>>>
           [] x = <<0,1022,<<9743,7136,8543,381>>>> -> <<0,1022,<<1099,14362,934,525>>>>
           [] x = <<0,1022,<<9744,7136,8543,381>>>> -> <<0,1022,<<1101,14362,934,525>>>>
           [] x = <<0,1022,<<11552,2047,14702,401>>>> -> <<0,1022,<<7710,13415,4191,553>>>>
           [] x = <<0,1022,<<15309,6652,2534,424>>>> -> <<0,1022,<<11545,4368,8117,584>>>>
           [] x = <<0,1022,<<365,15776,6514,446>>>> -> <<0,1022,<<10310,671,3250,616>>>>
           [] x = <<0,1022,<<4160,6828,1391,462>>>> -> <<0,1022,<<10362,16185,14170,638>>>>
           [] x = <<0,1022,<<11237,1547,14295,471>>>> -> <<0,1022,<<604,13994,2323,653>>>>
           [] x = <<0,1022,<<11239,1547,14295,471>>>> -> <<0,1022,<<607,13994,2323,653>>>>
           [] x = <<0,1022,<<1589,15829,8012,502>>>> -> <<0,1022,<<12626,8419,8333,698>>>>
           [] x = <<0,1022,<<16383,16383,16383,511>>>> -> <<0,1022,<<219,5914,13617,712>>>>
           [] x = <<0,1022,<<0,0,0,512>>>> -> <<0,1022,<<220,5914,13617,712>>>>
           [] x = <<0,1022,<<1,0,0,512>>>> -> <<0,1022,<<222,5914,13617,712>>>>
           [] x = <<0,1022,<<2292,7093,14048,542>>>> -> <<0,1022,<<10570,15799,1737,760>>>>
           [] x = <<0,1022,<<16006,11013,1951,570>>>> -> <<0,1022,<<14077,12607,16012,802>>>>
           [] x = <<0,1022,<<2617,5862,12553,576>>>> -> <<0,1022,<<1870,5964,9822,813>>>>
           [] x = <<0,1022,<<2353,3318,10394,616>>>> -> <<0,1022,<<9358,13958,13584,878>>>>
           [] x = <<0,1022,<<2354,3318,10394,616>>>> -> <<0,1022,<<9360,13958,13584,878>>>>
           [] x = <<0,1022,<<11325,48,3031,648>>>> -> <<0,1022,<<12635,8213,8002,932>>>>
           [] x = <<0,1022,<<11326,48,3031,648>>>> -> <<0,1022,<<12637,8213,8002,932>>>>
           [] x = <<0,1022,<<11327,48,3031,648>>>> -> <<0,1022,<<12639,8213,8002,932>>>>
           [] x = <<0,1022,<<11940,13987,14236,673>>>> -> <<0,1022,<<4899,12354,11193,977>>>>
           [] x = <<0,1022,<<12083,4085,1833,674>>>> -> <<0,1022,<<1483,16090,1928,978>>>>
           [] x = <<0,1022,<<12084,4085,1833,674>>>> -> <<0,1022,<<1485,16090,1928,978>>>>
           [] x = <<0,1022,<<15728,7055,3037,689>>>> -> <<0,1022,<<2582,5525,5757,1005>>>>
           [] x = <<0,1022,<<15729,7055,3037,689>>>> -> <<0,1022,<<2584,5525,5757,1005>>>>
           [] x = <<0,1022,<<2140,12689,9246,709>>>> -> <<0,1023,<<1999,997,8813,9>>>>
           [] x = <<0,1022,<<15654,13650,7488,711>>>> -> <<0,1023,<<5390,93,5206,11>>>>
           [] x = <<0,1022,<<16346,13864,4264,747>>>> -> <<0,1023,<<3303,10680,15978,45>>>>
           [] x = <<0,1022,<<3242,8545,10158,749>>>> -> <<0,1023,<<13157,8373,5411,48>>>>
           [] x = <<0,1022,<<3243,8545,10158,749>>>> -> <<0,1023,<<13158,8373,5411,48>>>>
           [] x = <<0,1022,<<3244,8545,10158,749>>>> -> <<0,1023,<<13159,8373,5411,48>>>>
           [] x = <<0,1022,<<11459,15505,5117,769>>>> -> <<0,1023,<<10310,9442,5952,68>>>>
           [] x = <<0,1022,<<13964,7951,2723,782>>>> -> <<0,1023,<<7762,8885,13624,81>>>>
           [] x = <<0,1022,<<13965,7951,2723,782>>>> -> <<0,1023,<<7763,8885,13624,81>>>>
           [] x = <<0,1022,<<15046,1911,9702,783>>>> -> <<0,1023,<<9978,11381,5670,83>>>>
           [] x = <<0,1022,<<14538,11608,11963,816>>>> -> <<0,1023,<<7482,2378,13418,119>>>>
           [] x = <<0,1022,<<7622,235,1311,841>>>> -> <<0,1023,<<8552,520,6788,148>>>>
           [] x = <<0,1022,<<7623,235,1311,841>>>> -> <<0,1023,<<8553,520,6788,148>>>>
           [] x = <<0,1022,<<12802,10886,5033,873>>>> -> <<0,1023,<<13469,4287,3664,189>>>>
           [] x = <<0,1022,<<2845,16197,3228,901>>>> -> <<0,1023,<<3528,13608,1415,228>>>>
           [] x = <<0,1022,<<14950,14331,14301,906>>>> -> <<0,1023,<<10452,523,8232,236>>>>
           [] x = <<0,1022,<<7477,13254,3653,923>>>> -> <<0,1023,<<3134,6673,15115,261>>>>
           [] x = <<0,1022,<<7478,13254,3653,923>>>> -> <<0,1023,<<3136,6673,15115,261>>>>
           [] x = <<0,1022,<<6212,6639,3012,939>>>> -> <<0,1023,<<373,5260,12494,288>>>>
           [] x = <<0,1022,<<13988,14747,376,941>>>> -> <<0,1023,<<11056,9935,142,292>>>>
           [] x = <<0,1022,<<16148,7458,3540,954>>>> -> <<0,1023,<<4157,6371,6764,316>>>>
           [] x = <<0,1022,<<16149,7458,3540,954>>>> -> <<0,1023,<<4159,6371,6764,316>>>>
           [] x = <<0,1022,<<3802,1341,15851,958>>>> -> <<0,1023,<<2854,773,12302,325>>>>
           [] x = <<0,1022,<<12339,8496,15106,972>>>> -> <<0,1023,<<8517,4473,5195,355>>>>
           [] x = <<0,1022,<<14562,12741,13827,987>>>> -> <<0,1023,<<3178,8762,13035,391>>>>
           [] x = <<0,1022,<<1719,893,6724,989>>>> -> <<0,1023,<<15864,15856,461,396>>>>
           [] x = <<0,1022,<<14043,5920,4636,993>>>> -> <<0,1023,<<920,892,15067,406>>>>
           [] x = <<0,1022,<<7652,1233,6106,1001>>>> -> <<0,1023,<<16182,14795,2240,432>>>>
           [] x = <<0,1022,<<3211,10407,12760,1006>>>> -> <<0,1023,<<2449,11459,9951,451>>>>
           [] x = <<0,1022,<<924,1511,12849,1021>>>> -> <<0,1023,<<13445,13427,14054,536>>>>
           [] x = <<0,1022,<<16320,16383,16379,1023>>>> -> <<0,1023,<<6083,4363,16309,583>>>>
           [] x = <<0,1023,<<>>>> -> <<0,1023,<<11544,4368,8117,584>>>>

----------------------------------------------------------------------------
(* 4. The program.                                                          *)

\* core::f64::consts::PI
PI == << 0, 1024, << 11544, 4368, 8117, 584 >> >>

\* the f64 literals of the source
F0   == Lit(0)
F1   == Lit(1)
F2   == Lit(2)
F3   == Lit(3)
F180 == Lit(180)
F360 == Lit(360)

\* f64::to_radians: self * (PI / 180.0)
RADS_PER_DEG == FDiv(PI, F180)
ToRadians(x) == FMul(x, RADS_PER_DEG)

\* f64::to_degrees: self * (180.0 / PI)
DEGS_PER_RAD == FDiv(F180, PI)
ToDegrees(x) == FMul(x, DEGS_PER_RAD)

\* f64::powi(2) and f64::powi(3), by repeated multiplication
Powi2(x) == FMul(x, x)
Powi3(x) == FMul(FMul(x, x), x)

U64Max == BSub(BShl(BNat(1), 64), BNat(1))

\* 2.0 / f64::sqrt(3.0) - 1.0, the constant b of standard_deviation
YamartinoB == FSub(FDiv(F2, FSqrt(F3)), F1)

\* count + 1 in u64, wrapping
U64Inc(n) == IF n = U64Max THEN << >> ELSE BAdd(n, BNat(1))

\* the inputs of add_measurement: the first measurement is one of the
\* angles of the tests, 8 degrees or an infinite value, and the later ones
\* are 90, 120 or 240 degrees; at most MaxLen measurements are taken one by
\* one (after the bulk step: MaxLen more)
MaxLen == 3
TestAngles == { Lit(0), Lit(90), Lit(180), Lit(270), Lit(360) }
Angles == TestAngles \cup { Lit(8), FInf(0) }
LateAngles == { Lit(90), Lit(120), Lit(240) }

Inputs(n) == IF n = 0 THEN Angles ELSE LateAngles

\* the sequences of at most n inputs
RECURSIVE InputSeqs(_)
InputSeqs(n) ==
    IF n = 0 THEN { << >> }
    ELSE LET P == InputSeqs(n - 1)
         IN  P \cup { Append(p, a) : p \in { q \in P : Len(q) = n - 1 }, a \in Inputs(n - 1) }

\* no value: not an f64, which has three components
None == << >>

VARIABLES
    acc,        \* the DirectionMeasurements value: count, sum_sin_rad, sum_cos_rad
    hist,       \* the angles passed to add_measurement, in call order (after
                \* the bulk step: those passed since)
    calls,      \* how many add_measurement calls have returned, as a limb number
    bulk,       \* whether the bulk step has been taken
    last_avg,   \* what average_direction returned since the last add_measurement
    last_std,   \* what standard_deviation returned since the last add_measurement
    panic_arg   \* the argument of the add_measurement call that panicked

vars == << acc, hist, calls, bulk, last_avg, last_std, panic_arg >>

new == [ count |-> << >>, sum_sin_rad |-> FZero(0), sum_cos_rad |-> FZero(0) ]

default == new

\* add_measurement with `=` for `+=` on the sums
add_measurement_overwrites(self, angle_degrees) ==
    [ count       |-> U64Inc(self.count),
      sum_sin_rad |-> Sin(ToRadians(angle_degrees)),
      sum_cos_rad |-> Cos(ToRadians(angle_degrees)) ]

\* add_measurement with the old sums halved before the new term is added
add_measurement_decays(self, angle_degrees) ==
    [ count       |-> U64Inc(self.count),
      sum_sin_rad |-> FAdd(FDiv(self.sum_sin_rad, F2), Sin(ToRadians(angle_degrees))),
      sum_cos_rad |-> FAdd(FDiv(self.sum_cos_rad, F2), Cos(ToRadians(angle_degrees))) ]

add_measurement(self, angle_degrees) ==
    [ count       |-> U64Inc(self.count),
      sum_sin_rad |-> FAdd(self.sum_sin_rad, Sin(ToRadians(angle_degrees))),
      sum_cos_rad |-> FAdd(self.sum_cos_rad, Cos(ToRadians(angle_degrees))) ]

\* the accumulator after the first n iterations of the loop of from_values
RECURSIVE from_values_loop(_, _)
from_values_loop(values, n) ==
    IF n = 0 THEN new
    ELSE add_measurement(from_values_loop(values, n - 1), values[n])

\* from_values with a loop that misses the first value
from_values_skips_first(values) ==
    IF values = << >> THEN new
    ELSE from_values_loop(Tail(values), Len(values) - 1)

from_values(values) == from_values_loop(values, Len(values))

\* average_direction returning 0.0 for the empty accumulator
average_direction_zero_when_empty(self) ==
    IF self.count = << >> THEN F0
    ELSE LET avg_sin_rad    == FDiv(self.sum_sin_rad, NatToF64(self.count))
             avg_cos_rad    == FDiv(self.sum_cos_rad, NatToF64(self.count))
             arctan_degrees == ToDegrees(Atan2(avg_sin_rad, avg_cos_rad))
         IN  IF FLt(arctan_degrees, F0)
             THEN FAdd(arctan_degrees, F360)
             ELSE arctan_degrees

\* average_direction without the normalisation of negative results
average_direction_not_normalised(self) ==
    IF self.count = << >> THEN NaN
    ELSE LET avg_sin_rad == FDiv(self.sum_sin_rad, NatToF64(self.count))
             avg_cos_rad == FDiv(self.sum_cos_rad, NatToF64(self.count))
         IN  ToDegrees(Atan2(avg_sin_rad, avg_cos_rad))

\* average_direction with `<=` for `<` in the normalisation
average_direction_wraps_zero(self) ==
    IF self.count = << >> THEN NaN
    ELSE LET avg_sin_rad    == FDiv(self.sum_sin_rad, NatToF64(self.count))
             avg_cos_rad    == FDiv(self.sum_cos_rad, NatToF64(self.count))
             arctan_degrees == ToDegrees(Atan2(avg_sin_rad, avg_cos_rad))
         IN  IF FLe(arctan_degrees, F0)
             THEN FAdd(arctan_degrees, F360)
             ELSE arctan_degrees

average_direction(self) ==
    IF self.count = << >> THEN NaN
    ELSE LET avg_sin_rad    == FDiv(self.sum_sin_rad, NatToF64(self.count))
             avg_cos_rad    == FDiv(self.sum_cos_rad, NatToF64(self.count))
             arctan         == Atan2(avg_sin_rad, avg_cos_rad)
             arctan_degrees == ToDegrees(arctan)
         IN  IF FLt(arctan_degrees, F0)
             THEN FAdd(arctan_degrees, F360)
             ELSE arctan_degrees

\* the argument of the square root in standard_deviation, for count # 0
radicand(self) ==
    LET avg_sin_rad == FDiv(self.sum_sin_rad, NatToF64(self.count))
        avg_cos_rad == FDiv(self.sum_cos_rad, NatToF64(self.count))
    IN  FSub(F1, FAdd(Powi2(avg_sin_rad), Powi2(avg_cos_rad)))

\* standard_deviation with a negative radicand clamped to zero
standard_deviation_clamped(self) ==
    IF self.count = << >> THEN NaN
    ELSE LET r       == radicand(self)
             epsilon == FSqrt(IF FLt(r, F0) THEN F0 ELSE r)
             arcsin  == Asin(epsilon)
             sigma   == FMul(arcsin, FAdd(F1, FMul(YamartinoB, Powi3(epsilon))))
         IN  ToDegrees(sigma)

standard_deviation(self) ==
    IF self.count = << >> THEN NaN
    ELSE LET epsilon     == FSqrt(radicand(self))
             arcsin      == Asin(epsilon)
             b           == YamartinoB
             sigma       == FMul(arcsin, FAdd(F1, FMul(b, Powi3(epsilon))))
         IN  ToDegrees(sigma)

Init ==
    /\ acc = new
    /\ hist = << >>
    /\ calls = << >>
    /\ bulk = FALSE
    /\ last_avg = None
    /\ last_std = None
    /\ panic_arg = None

Running == panic_arg = None

\* DirectionMeasurements::from_values(&values), as the way the accumulator
\* is made
FromValues(values) ==
    /\ Running
    /\ calls = << >>
    /\ last_avg = None
    /\ last_std = None
    /\ acc' = from_values(values)
    /\ hist' = values
    /\ calls' = BNat(Len(values))
    /\ UNCHANGED << bulk, last_avg, last_std, panic_arg >>

\* self.add_measurement(angle_degrees) where count + 1 fits
AddMeasurement(angle_degrees) ==
    /\ Running
    /\ Len(hist) < MaxLen
    /\ acc.count # U64Max
    /\ acc' = add_measurement(acc, angle_degrees)
    /\ hist' = Append(hist, angle_degrees)
    /\ calls' = BAdd(calls, BNat(1))
    /\ last_avg' = None
    /\ last_std' = None
    /\ UNCHANGED << bulk, panic_arg >>

\* self.add_measurement(angle_degrees) at count = u64::MAX, built with
\* overflow checks (the debug profile): `self.count += 1` panics before
\* anything is stored
AddMeasurementPanics(angle_degrees) ==
    /\ Running
    /\ Len(hist) < MaxLen
    /\ acc.count = U64Max
    /\ panic_arg' = angle_degrees
    /\ UNCHANGED << acc, hist, calls, bulk, last_avg, last_std >>

\* self.add_measurement(angle_degrees) at count = u64::MAX, built without
\* overflow checks (the release profile): count wraps to 0
AddMeasurementWraps(angle_degrees) ==
    /\ Running
    /\ Len(hist) < MaxLen
    /\ acc.count = U64Max
    /\ acc' = add_measurement(acc, angle_degrees)
    /\ hist' = Append(hist, angle_degrees)
    /\ calls' = BAdd(calls, BNat(1))
    /\ last_avg' = None
    /\ last_std' = None
    /\ UNCHANGED << bulk, panic_arg >>

\* 2^64 - 1 calls of add_measurement(0.0) on the new accumulator, in one
\* step: count is 2^64 - 1, sum_sin_rad is still 0.0 (0.0 + sin(0) = 0.0)
\* and sum_cos_rad has stopped at 2^53, where adding cos(0) = 1.0 rounds
\* back to 2^53
AddZeroToTheBrim ==
    /\ Running
    /\ calls = << >>
    /\ last_avg = None
    /\ last_std = None
    /\ acc' = [ count |-> U64Max, sum_sin_rad |-> FZero(0), sum_cos_rad |-> NatToF64(Two53) ]
    /\ calls' = U64Max
    /\ bulk' = TRUE
    /\ UNCHANGED << hist, last_avg, last_std, panic_arg >>

AverageDirection ==
    /\ Running
    /\ last_avg' = average_direction(acc)
    /\ UNCHANGED << acc, hist, calls, bulk, last_std, panic_arg >>

\* standard_deviation that hands the result out and starts the accumulator
\* afresh
StandardDeviationDrains ==
    /\ Running
    /\ last_std' = standard_deviation(acc)
    /\ acc' = new
    /\ UNCHANGED << hist, calls, bulk, last_avg, panic_arg >>

StandardDeviation ==
    /\ Running
    /\ last_std' = standard_deviation(acc)
    /\ UNCHANGED << acc, hist, calls, bulk, last_avg, panic_arg >>

Next ==
    \/ \E values \in InputSeqs(MaxLen) : FromValues(values)
    \/ \E a \in Inputs(Len(hist)) : AddMeasurement(a)
    \/ \E a \in Inputs(Len(hist)) : AddMeasurementPanics(a)
    \/ \E a \in Inputs(Len(hist)) : AddMeasurementWraps(a)
    \/ AddZeroToTheBrim
    \/ AverageDirection
    \/ StandardDeviation

Spec == Init /\ [][Next]_vars

----------------------------------------------------------------------------
(* 5. The claims.                                                           *)

AllFinite(s) == \A i \in 1..Len(s) : FIsFinite(s[i])

FAbs(x) == << 0, FExp(x), FFrac(x) >>

\* the state the bulk step leaves, from which hist continues
BrimState == [ count |-> U64Max, sum_sin_rad |-> FZero(0), sum_cos_rad |-> NatToF64(Two53) ]

Base == IF bulk THEN BrimState ELSE new

\* C1: count is the number of add_measurement calls made on the accumulator
\* since new() (for from_values: the length of its input plus the later
\* calls).
C1_CountIsCalls == acc.count = calls

\* C5: add_measurement never panics on a finite angle.
C5_NoPanic == panic_arg = None \/ ~FIsFinite(panic_arg)

\* C2: the accumulator into which nothing was ingested, made by new(),
\* default() or from_values of the empty sequence, answers NaN to both
\* queries.
C2_EmptyIsNaN ==
    /\ calls = << >> =>
          /\ acc = new
          /\ FIsNaN(average_direction(acc))
          /\ FIsNaN(standard_deviation(acc))
          /\ last_avg # None => FIsNaN(last_avg)
          /\ last_std # None => FIsNaN(last_std)
    /\ \A e \in { default, from_values(<< >>) } :
          FIsNaN(average_direction(e)) /\ FIsNaN(standard_deviation(e))

C2_Witness == calls = << >> /\ last_avg # None /\ last_std # None

\* C3: the accumulator that new() and one add_measurement per angle have
\* built is, field for field, the one from_values makes of the same angles
\* in the same order.
C3_FromValuesIsAdds == ~bulk => acc = from_values(hist)

C3_Witness == ~bulk /\ Len(hist) = MaxLen /\ acc.sum_sin_rad # FZero(0)

\* C4: a query changes no field of the accumulator, and asked again with no
\* add_measurement in between, whatever other queries were made, it returns
\* what it returned before.
C4_QueriesArePure ==
    [][ (calls' = calls /\ panic_arg' = panic_arg) =>
          /\ acc' = acc
          /\ (last_avg # None /\ last_avg' # None) => last_avg' = last_avg
          /\ (last_std # None /\ last_std' # None) => last_std' = last_std ]_vars

C4_Witness == calls # << >> /\ last_avg # None /\ last_std # None /\ ~FIsNaN(last_std)

\* C6, as claimed: two orders of the same finite angles give the same count
\* and, to within the tolerance of 1e-9 degrees, the same average direction
\* and standard deviation.  The order of hist is compared with the sorted
\* order.
RECURSIVE Insert(_, _)
Insert(s, a) ==
    IF s = << >> THEN << a >>
    ELSE IF FLt(a, Head(s)) THEN << a >> \o s
    ELSE << Head(s) >> \o Insert(Tail(s), a)

RECURSIVE Sorted(_)
Sorted(s) == IF s = << >> THEN << >> ELSE Insert(Sorted(Tail(s)), Head(s))

Tolerance == << 0, 993, << 5781, 8347, 8382, 75 >> >>

\* x and y are both NaN, or are degrees less than Tolerance apart on the circle
SameDegrees(x, y) ==
    IF FIsNaN(x) \/ FIsNaN(y) THEN FIsNaN(x) /\ FIsNaN(y)
    ELSE LET d == FAbs(FSub(x, y))
         IN  FLe(d, Tolerance) \/ FLe(FAbs(FSub(F360, d)), Tolerance)

C6_OrderInvariant ==
    (~bulk /\ AllFinite(hist)) =>
        LET o == from_values(Sorted(hist))
        IN  /\ o.count = acc.count
            /\ SameDegrees(average_direction(o), average_direction(acc))
            /\ SameDegrees(standard_deviation(o), standard_deviation(acc))

\* C6, amended: two orders of the same n finite angles give the same count,
\* and sums that differ by the rounding of the additions only, at most
\* n^2 * 2^-52.
Epsilon == << 0, 1023 - 52, << >> >>

SumSlack(n) == FMul(NatToF64(BNat(n * n)), Epsilon)

C6_SumsUpToRounding ==
    (~bulk /\ AllFinite(hist)) =>
        LET o == from_values(Sorted(hist))
        IN  /\ o.count = acc.count
            /\ FLe(FAbs(FSub(o.sum_sin_rad, acc.sum_sin_rad)), SumSlack(Len(hist)))
            /\ FLe(FAbs(FSub(o.sum_cos_rad, acc.sum_cos_rad)), SumSlack(Len(hist)))

C6_Witness ==
    /\ ~bulk
    /\ AllFinite(hist)
    /\ Sorted(hist) # hist
    /\ from_values(Sorted(hist)).sum_cos_rad # acc.sum_cos_rad

\* C7, as claimed: with count >= 1 and finite angles, average_direction
\* returns d with 0 <= d < 360.
C7_BelowFullCircle ==
    (last_avg # None /\ acc.count # << >> /\ AllFinite(hist)) =>
        FLe(F0, last_avg) /\ FLt(last_avg, F360)

\* C7, amended: with count >= 1 and finite angles, average_direction
\* returns d with 0 <= d <= 360.
C7_UpToFullCircle ==
    (last_avg # None /\ acc.count # << >> /\ AllFinite(hist)) =>
        FLe(F0, last_avg) /\ FLe(last_avg, F360)

C7_Witness == ~bulk /\ hist = << F360 >> /\ last_avg = F360

\* C8, as claimed: after the single measurement theta, 0 <= theta <= 360,
\* average_direction returns theta and standard_deviation returns 0.
C8_SingleAny ==
    (~bulk /\ Len(hist) = 1 /\ FLe(F0, hist[1]) /\ FLe(hist[1], F360)) =>
        /\ last_avg # None => FEq(last_avg, hist[1])
        /\ last_std # None => FEq(last_std, F0)

\* C8, amended: after the single measurement theta, theta one of 0, 90,
\* 180, 270 and 360, average_direction returns theta (360 for 360) and
\* standard_deviation returns 0.
C8_SingleTested ==
    (~bulk /\ Len(hist) = 1 /\ hist[1] \in TestAngles) =>
        /\ last_avg # None => FEq(last_avg, hist[1])
        /\ last_std # None => FEq(last_std, F0)

C8_Witness ==
    ~bulk /\ hist = << Lit(270) >> /\ last_avg # None /\ last_std # None

\* C9, as claimed: standard_deviation returns NaN for count = 0 and, with
\* count >= 1 and finite angles, a value >= 0.
C9_NonNegative ==
    last_std # None =>
        IF acc.count = << >> THEN FIsNaN(last_std)
        ELSE AllFinite(hist) => FLe(F0, last_std)

\* C9, amended: standard_deviation returns NaN for count = 0; with
\* count >= 1 and finite angles it returns NaN when rounding has made
\* 1 - (avg_sin^2 + avg_cos^2) negative, and a value >= 0 otherwise.
C9_NonNegativeOrNaN ==
    last_std # None =>
        IF acc.count = << >> THEN FIsNaN(last_std)
        ELSE AllFinite(hist) =>
                IF FLt(radicand(acc), F0) THEN FIsNaN(last_std)
                                          ELSE FLe(F0, last_std)

C9_Witness ==
    ~bulk /\ hist = << Lit(8) >> /\ last_std # None /\ FIsNaN(last_std)

\* C10: the sums are the running sums, in call order, of sin and cos of
\* every angle ingested, each taken of the angle in radians, and start at 0.
SinOf(a) == Sin(ToRadians(a))
CosOf(a) == Cos(ToRadians(a))

RECURSIVE RunningSum(_, _)
RunningSum(F(_), n) ==
    IF n = 0 THEN F(0)
    ELSE FAdd(RunningSum(F, n - 1), F(n))

C10_RunningSums ==
    /\ LET term(i) == IF i = 0 THEN Base.sum_sin_rad ELSE SinOf(hist[i])
       IN  acc.sum_sin_rad = RunningSum(term, Len(hist))
    /\ LET term(i) == IF i = 0 THEN Base.sum_cos_rad ELSE CosOf(hist[i])
       IN  acc.sum_cos_rad = RunningSum(term, Len(hist))
    /\ calls = << >> => acc.sum_sin_rad = FZero(0) /\ acc.sum_cos_rad = FZero(0)

C10_Witness == ~bulk /\ Len(hist) = MaxLen /\ acc.sum_cos_rad # FZero(0)

====
